---- MODULE Spec2Model ----
(***************************************************************************)
(* AllOneCustomerAI: the conversation orchestration engine.                *)
(*                                                                         *)
(* The model covers the JSON document store (DatabaseManager), the         *)
(* orchestrator (AIService: command interpreter, language resolution,      *)
(* language detection, provider dispatch, Gemini chat-session table) and   *)
(* the transport handler (WhatsAppBot.processMessage).                     *)
(*                                                                         *)
(* Texts are real strings; toLowerCase, trim, split, startsWith, includes  *)
(* and the \b regular expressions are computed character by character.     *)
(***************************************************************************)
EXTENDS Integers, Sequences, FiniteSets, TLC

(***************************************************************************)
(* Bounds of the model.                                                    *)
(***************************************************************************)
MaxMessages == 4   \* messages kept per conversation
MaxHandles == 2    \* Gemini chat sessions ever started
MaxTurns == 2      \* turns in flight at once
MaxSessions == 3   \* store sessions ever created
MaxClock == 2      \* days the clock advances

(***************************************************************************)
(* JavaScript string primitives.                                           *)
(***************************************************************************)
Null == "<null>"

UpperCase == "ABCDEFGHIJKLMNOPQRSTUVWXYZ"
LowerCase == "abcdefghijklmnopqrstuvwxyz"
Digits == "0123456789"

RECURSIVE IndexIn(_, _, _)
\* 1-based index of the one-character string c in s at or after i, 0 if none
IndexIn(c, s, i) ==
    IF i > Len(s) THEN 0
    ELSE IF SubSeq(s, i, i) = c THEN i
    ELSE IndexIn(c, s, i + 1)

LowerChar(c) ==
    LET k == IndexIn(c, UpperCase, 1)
    IN  IF k = 0 THEN c ELSE SubSeq(LowerCase, k, k)

RECURSIVE toLowerCase(_)
toLowerCase(s) ==
    IF s = "" THEN "" ELSE LowerChar(SubSeq(s, 1, 1)) \o toLowerCase(Tail(s))

RECURSIVE TrimStart(_)
TrimStart(s) ==
    IF s # "" /\ SubSeq(s, 1, 1) = " " THEN TrimStart(Tail(s)) ELSE s

RECURSIVE TrimEnd(_)
TrimEnd(s) ==
    IF s # "" /\ SubSeq(s, Len(s), Len(s)) = " "
    THEN TrimEnd(SubSeq(s, 1, Len(s) - 1)) ELSE s

trim(s) == TrimEnd(TrimStart(s))

startsWith(s, prefix) ==
    Len(s) >= Len(prefix) /\ SubSeq(s, 1, Len(prefix)) = prefix

includes(s, w) ==
    \E i \in 1..(Len(s) - Len(w) + 1) : SubSeq(s, i, i + Len(w) - 1) = w

RECURSIVE SplitFrom(_, _, _)
\* s.split(' '): the pieces of s between single spaces, empty pieces kept
SplitFrom(s, i, piece) ==
    IF i > Len(s) THEN <<piece>>
    ELSE IF SubSeq(s, i, i) = " " THEN <<piece>> \o SplitFrom(s, i + 1, "")
    ELSE SplitFrom(s, i + 1, piece \o SubSeq(s, i, i))

split(s) == SplitFrom(s, 1, "")

\* \w of a JavaScript regular expression
IsWordChar(c) ==
    \/ IndexIn(c, LowerCase, 1) # 0
    \/ IndexIn(c, UpperCase, 1) # 0
    \/ IndexIn(c, Digits, 1) # 0
    \/ c = "_"

\* /\b(w)\b/ matches in s, for a w made of word characters
MatchesWord(s, w) ==
    \E i \in 1..(Len(s) - Len(w) + 1) :
        /\ SubSeq(s, i, i + Len(w) - 1) = w
        /\ (i = 1 \/ ~IsWordChar(SubSeq(s, i - 1, i - 1)))
        /\ (i + Len(w) - 1 = Len(s) \/ ~IsWordChar(SubSeq(s, i + Len(w), i + Len(w))))

RECURSIVE SumLen(_, _)
\* sum of word.length over the words of the list that s includes
SumLen(s, words) ==
    IF words = <<>> THEN 0
    ELSE (IF includes(s, Head(words)) THEN Len(Head(words)) ELSE 0)
         + SumLen(s, Tail(words))

(***************************************************************************)
(* AIService.detectLanguage                                                *)
(***************************************************************************)
englishWords ==
    << "hello", "hi", "hey", "good morning", "good afternoon", "good evening",
       "thank you", "thanks", "please", "help", "how are you", "what", "where",
       "when", "why", "how", "can you", "could you", "would you", "i need",
       "i want", "i have", "problem", "issue", "question", "information",
       "service", "product", "price", "cost", "buy", "purchase", "order" >>

indonesianWords ==
    << "halo", "hai", "selamat pagi", "selamat siang", "selamat sore", "selamat malam",
       "terima kasih", "makasih", "tolong", "bantuan", "apa kabar", "apa", "dimana",
       "kapan", "mengapa", "kenapa", "bagaimana", "gimana", "bisa", "bisakah",
       "saya perlu", "saya mau", "saya punya", "masalah", "pertanyaan", "informasi",
       "layanan", "produk", "harga", "beli", "pesan", "order", "dan", "atau",
       "dengan", "untuk", "dari", "ke", "di", "pada", "yang", "ini", "itu" >>

englishPattern ==
    {"the", "and", "or", "but", "in", "on", "at", "to", "for", "of", "with", "by"}

indonesianPattern ==
    {"yang", "dan", "atau", "dengan", "untuk", "dari", "ke", "di", "pada", "ini", "itu"}

PatternBonus == 5
ConfidenceFloor == 3
MinDetectLength == 3

englishScore(cleanText) ==
    SumLen(cleanText, englishWords)
    + (IF \E w \in englishPattern : MatchesWord(cleanText, w) THEN PatternBonus ELSE 0)

indonesianScore(cleanText) ==
    SumLen(cleanText, indonesianWords)
    + (IF \E w \in indonesianPattern : MatchesWord(cleanText, w) THEN PatternBonus ELSE 0)

\* a detection whose confidence floor is not strict
detectLanguageAtFloor(text) ==
    IF text = Null \/ text = "" \/ Len(trim(text)) < MinDetectLength THEN Null
    ELSE IF englishScore(trim(toLowerCase(text))) > indonesianScore(trim(toLowerCase(text)))
            /\ englishScore(trim(toLowerCase(text))) >= ConfidenceFloor THEN "en"
    ELSE IF indonesianScore(trim(toLowerCase(text))) > englishScore(trim(toLowerCase(text)))
            /\ indonesianScore(trim(toLowerCase(text))) >= ConfidenceFloor THEN "id"
    ELSE Null

detectLanguage(text) ==
    IF text = Null \/ text = "" \/ Len(trim(text)) < MinDetectLength THEN Null
    ELSE LET cleanText == trim(toLowerCase(text))
             en == englishScore(cleanText)
             id == indonesianScore(cleanText)
         IN  IF en > id /\ en > ConfidenceFloor THEN "en"
             ELSE IF id > en /\ id > ConfidenceFloor THEN "id"
             ELSE Null


(***************************************************************************)
(* String formatting used by the message templates.                        *)
(***************************************************************************)
RECURSIVE replaceAll(_, _, _)
\* message.replace(new RegExp(pat, 'g'), val) for a literal pat
replaceAll(s, pat, val) ==
    IF Len(s) < Len(pat) THEN s
    ELSE IF SubSeq(s, 1, Len(pat)) = pat
         THEN val \o replaceAll(SubSeq(s, Len(pat) + 1, Len(s)), pat, val)
         ELSE SubSeq(s, 1, 1) \o replaceAll(Tail(s), pat, val)

toUpperChar(c) ==
    LET k == IndexIn(c, LowerCase, 1)
    IN  IF k = 0 THEN c ELSE SubSeq(UpperCase, k, k)

RECURSIVE toUpperCase(_)
toUpperCase(s) ==
    IF s = "" THEN "" ELSE toUpperChar(SubSeq(s, 1, 1)) \o toUpperCase(Tail(s))

(***************************************************************************)
(* Configuration: the language packs (config/languages.json), the default  *)
(* language, the company name, the providers and the senders.  The packs   *)
(* keep the keys of the file; each template is cut to its first sentence   *)
(* and keeps the placeholders the code fills in.  AIService reads the      *)
(* packs as config.languages, the object parsed from the file.             *)
(***************************************************************************)
Languages ==
    [ id |->
        [ name |-> "Bahasa Indonesia",
          systemPrompt |-> "Anda adalah asisten AI customer service",
          messages |->
            [ welcome |-> "Halo! Selamat datang di layanan customer service AI kami.",
              fallback |-> "Maaf, saya tidak sepenuhnya memahami pertanyaan Anda.",
              goodbye |-> "Terima kasih telah menghubungi kami.",
              error |-> "Maaf, terjadi kesalahan teknis.",
              reset |-> "Sesi percakapan telah direset.",
              languageChanged |-> "Bahasa telah diubah ke Bahasa Indonesia.",
              languageList |-> "Pilihan Bahasa: /language id, /language en",
              help |-> "Bantuan AllOneCustomerAI",
              status |-> "Total Pesan: {messageCount} Bahasa: {language} AI Provider: {provider}",
              userNotFound |-> "Informasi pengguna tidak ditemukan." ] ],
      en |->
        [ name |-> "English",
          systemPrompt |-> "You are a professional and helpful AI customer service assistant",
          messages |->
            [ welcome |-> "Hello! Welcome to our AI customer service.",
              fallback |-> "I'm sorry, I don't fully understand your question.",
              goodbye |-> "Thank you for contacting us.",
              error |-> "Sorry, a technical error occurred.",
              reset |-> "Conversation session has been reset.",
              languageChanged |-> "Language has been changed to English.",
              languageList |-> "Language Options: /language id, /language en",
              help |-> "AllOneCustomerAI Help",
              greeting |-> "Hello! Welcome to {companyName}.",
              gratitude |-> "You're welcome! I'm glad I could help you.",
              status |-> "Total Messages: {messageCount} Language: {language} AI Provider: {provider}",
              userNotFound |-> "User information not found." ] ] ]

LanguageCodes == DOMAIN Languages

\* The lower-case property names every plain JavaScript object inherits from
\* Object.prototype: languages[k] is truthy for them although k is no language.
ObjectPrototypeKeys == {"constructor", "__proto__"}

defaultLanguage == "id"
companyName == "Your Company"
Providers == {"gemini", "openai", "claude"}
ModelOf == [gemini |-> "gemini-2.0-flash-exp", openai |-> "gpt-4o-mini",
            claude |-> "claude-3-haiku-20240307"]

Phones == {"6281@s.whatsapp.net", "6282@s.whatsapp.net"}

\* Inbound texts the transport delivers.
ChatTexts == {"Hello", "Halo, apa kabar?", "OK"}
CommandTexts ==
    { "/help", "/HELP", "/info", "/reset", "/status", "/provider",
      "/language", "/language en", "/language id", "/language xx",
      "/language constructor", "/languages", "/foo" }
Texts == ChatTexts \cup CommandTexts

\* Inbound texts that start with /admin
AdminTexts ==
    { "/admin", "/admin stats", "/admin broadcast Hi", "/admin cleanup",
      "/admin sessions clearall", "/admin sessions cleanup", "/admin help" }

\* Texts handed to detectLanguage: the cases of runLanguageDetectionTests and
\* texts at the edges of the rule (a tie, scores of 3 and 4, capitals, texts
\* shorter than three characters, padded or scoring above the floor)
DetectTexts ==
    { "Hello, how are you?", "Good morning! I need help with my order",
      "Thank you for the information", "Can you help me with this problem?",
      "I want to buy this product",
      "Halo, apa kabar?", "Selamat pagi! Saya perlu bantuan dengan pesanan saya",
      "Terima kasih untuk informasinya",
      "Bisakah Anda membantu saya dengan masalah ini?", "Saya mau beli produk ini",
      "Hi", "123456", "", "OK",
      "order", "hey", "what", "hai", "HELLO", "to", "di", "  hi  ", " to " }

\* what the provider backend answers
AIReply == "How can I help you?"

\* the hard-coded error text of WhatsAppBot.processMessage
ProcessingErrorText == "Maaf, terjadi kesalahan dalam memproses pesan Anda. Silakan coba lagi."

VARIABLES
    data,           \* DatabaseManager.data
    chatSessions,   \* AIService.chatSessions: phone -> handle, 0 when absent
    provider,       \* AIService.provider
    backend,        \* the Gemini backend: the chat sessions started so far
    turns,          \* the turns suspended at the provider or at the store
    succeeded,      \* per sender, the turns whose adapter call succeeded
    last,           \* the operation that completed last and what it returned
    disk,           \* the database file and the writes to it in flight,
                    \* followed in SpecStore
    app             \* the process: how far startApplication has come, the
                    \* environment it was started in, its clock (days), the
                    \* bot's connection, its own number, its adminNumbers and
                    \* what the handler that ran last handed to the socket

(***************************************************************************)
(* DatabaseManager: the document this.data and its operations.  An         *)
(* operation takes the document and yields the document it leaves in       *)
(* memory, its return value and whether it threw.                          *)
(***************************************************************************)
NoUser == [exists |-> FALSE, messageCount |-> 0, language |-> Null]

EmptyData ==
    [ users |-> [p \in Phones |-> NoUser],
      conversations |-> [p \in Phones |-> <<>>],
      sessions |-> <<>>,
      analytics |->
        [ totalMessages |-> 0, totalUsers |-> 0,
          \* dailyStats of the days before today: their message counters
          earlier |-> <<>>,
          \* dailyStats[today]: users is a Set until getAnalytics replaces it
          \* by its size
          today |-> [present |-> FALSE, messages |-> 0, users |-> {},
                     usersIsSet |-> TRUE, usersSize |-> 0] ] ]

getUser(d, phoneNumber) == d.users[phoneNumber]

createUser(d, phoneNumber) ==
    LET users1 == [d.users EXCEPT ![phoneNumber] =
                       [exists |-> TRUE, messageCount |-> 0, language |-> Null]]
    IN  [d EXCEPT !.users = users1,
                  !.analytics.totalUsers = Cardinality({p \in Phones : users1[p].exists})]

\* updateUser(phoneNumber, {lastSeen}): spreads the stored record
updateUserLastSeen(d, phoneNumber) == d

\* updateUser(phoneNumber, {preferences}) with preferences.language = lang
updateUserPreferences(d, phoneNumber, lang) ==
    IF d.users[phoneNumber].exists
    THEN [d EXCEPT !.users[phoneNumber].language = lang]
    ELSE d

\* the counter saveMessage adds to the stored user's messageCount
MessageCountStep(isFromUser) == 1

saveMessage(d, phoneNumber, message, isFromUser) ==
    LET messageData == [content |-> message, isFromUser |-> isFromUser,
                        timestamp |-> app.now]
        d1 == [d EXCEPT !.conversations[phoneNumber] = Append(@, messageData),
                        !.analytics.totalMessages = @ + 1]
        d2 == IF d1.analytics.today.present THEN d1
              ELSE [d1 EXCEPT !.analytics.today =
                       [present |-> TRUE, messages |-> 0, users |-> {},
                        usersIsSet |-> TRUE, usersSize |-> 0]]
        d3 == [d2 EXCEPT !.analytics.today.messages = @ + 1]
    IN  IF ~d3.analytics.today.usersIsSet
        THEN \* users.add is not a function: TypeError at the add
             [data |-> d3, threw |-> TRUE]
        ELSE LET d4 == [d3 EXCEPT !.analytics.today.users = @ \cup {phoneNumber}]
                 d5 == IF d4.users[phoneNumber].exists
                       THEN [d4 EXCEPT !.users[phoneNumber].messageCount =
                                           @ + MessageCountStep(isFromUser)]
                       ELSE d4
             IN  [data |-> d5, threw |-> FALSE]

HistoryLimit == 10

getConversationHistory(d, phoneNumber, limit) ==
    LET m == d.conversations[phoneNumber]
    IN  IF limit = 0 THEN m   \* slice(-0) is slice(0)
        ELSE SubSeq(m, IF Len(m) > limit THEN Len(m) - limit + 1 ELSE 1, Len(m))

\* index in sessions of the active session of phoneNumber with the latest
\* lastActivity (sessions is kept in lastActivity order), 0 if none
getActiveSession(d, phoneNumber) ==
    LET act == {i \in DOMAIN d.sessions :
                   d.sessions[i].phoneNumber = phoneNumber /\ d.sessions[i].isActive}
    IN  IF act = {} THEN 0 ELSE CHOOSE i \in act : \A j \in act : j <= i

\* closeSession: updateSession(id, {isActive: false}) also renews lastActivity
closeSession(d, i) ==
    LET s == [d.sessions[i] EXCEPT !.isActive = FALSE, !.lastActivity = app.now]
        rest == [j \in 1..(Len(d.sessions) - 1) |->
                    IF j < i THEN d.sessions[j] ELSE d.sessions[j + 1]]
    IN  [d EXCEPT !.sessions = Append(rest, s)]

getAnalytics(d) ==
    IF d.analytics.today.present /\ d.analytics.today.usersIsSet
    THEN [d EXCEPT !.analytics.today.usersIsSet = FALSE,
                   !.analytics.today.usersSize = Cardinality(d.analytics.today.users)]
    ELSE d

\* a cleanup that also takes the removed messages off totalMessages
cleanupRecounting(d, daysToKeep) ==
    [d EXCEPT !.conversations =
                  [p \in Phones |->
                      SelectSeq(d.conversations[p],
                                LAMBDA m : m.timestamp > app.now - daysToKeep)],
              !.sessions =
                  SelectSeq(d.sessions,
                            LAMBDA s : ~(s.lastActivity < app.now - daysToKeep)),
              !.analytics.totalMessages =
                  @ - Cardinality({<<p, i>> \in Phones \X (1..MaxMessages) :
                                      /\ i <= Len(d.conversations[p])
                                      /\ ~(d.conversations[p][i].timestamp
                                             > app.now - daysToKeep)})]

\* a cleanup that keeps the messages stamped exactly at the cutoff
cleanupKeepingCutoff(d, daysToKeep) ==
    [d EXCEPT !.conversations =
                  [p \in Phones |->
                      SelectSeq(d.conversations[p],
                                LAMBDA m : m.timestamp >= app.now - daysToKeep)],
              !.sessions =
                  SelectSeq(d.sessions,
                            LAMBDA s : ~(s.lastActivity < app.now - daysToKeep))]

\* a cleanup that hands the kept messages back newest first
cleanupReordering(d, daysToKeep) ==
    [d EXCEPT !.conversations =
                  [p \in Phones |->
                      [i \in 1..Len(SelectSeq(d.conversations[p],
                                               LAMBDA m : m.timestamp > app.now - daysToKeep)) |->
                          SelectSeq(d.conversations[p],
                                    LAMBDA m : m.timestamp > app.now - daysToKeep)
                              [Len(SelectSeq(d.conversations[p],
                                             LAMBDA m : m.timestamp > app.now - daysToKeep)) + 1 - i]]],
              !.sessions =
                  SelectSeq(d.sessions,
                            LAMBDA s : ~(s.lastActivity < app.now - daysToKeep))]

\* cleanup(daysToKeep): the cutoff is now - daysToKeep; keeps the messages
\* with timestamp > cutoff (a conversation left empty is deleted) and deletes
\* the sessions with lastActivity < cutoff
cleanup(d, daysToKeep) ==
    [d EXCEPT !.conversations =
                  [p \in Phones |->
                      SelectSeq(d.conversations[p],
                                LAMBDA m : m.timestamp > app.now - daysToKeep)],
              !.sessions =
                  SelectSeq(d.sessions,
                            LAMBDA s : ~(s.lastActivity < app.now - daysToKeep))]

(***************************************************************************)
(* AIService: language resolution and localized messages.                  *)
(***************************************************************************)
\* this.languages[code] is truthy
hasLanguage(code) == code \in LanguageCodes \/ code \in ObjectPrototypeKeys

setUserLanguage(d, phoneNumber, languageCode) ==
    IF getUser(d, phoneNumber).exists
    THEN updateUserPreferences(d, phoneNumber, languageCode)
    ELSE d

\* detectLanguage, toLowerCase().trim() and toUpperCase() of the texts and names
\* of the model, computed once
DetectOf == [t \in Texts \cup AdminTexts \cup DetectTexts \cup {Null} |-> detectLanguage(t)]
CommandOf == [t \in Texts \cup AdminTexts |-> trim(toLowerCase(t))]
PartsOf == [t \in Texts \cup AdminTexts |-> split(CommandOf[t])]
UpperOf == [prov \in Providers |-> toUpperCase(prov)]

\* the languages for which detection is persisted as the preference
PersistDetected(detected) == detected # Null /\ detected # defaultLanguage

\* getUserLanguage(phoneNumber, messageText): the language and the document
getUserLanguage(d, phoneNumber, messageText) ==
    LET user == getUser(d, phoneNumber)
        detected == DetectOf[messageText]
    IN  IF user.exists /\ user.language # Null
        THEN [lang |-> user.language, data |-> d]
        ELSE IF messageText # Null /\ messageText # "" /\ PersistDetected(detected)
        THEN [lang |-> detected, data |-> setUserLanguage(d, phoneNumber, detected)]
        ELSE [lang |-> defaultLanguage, data |-> d]

RECURSIVE Substitute(_, _)
\* replace {key} by value for every <<key, value>> of placeholders
Substitute(message, placeholders) ==
    IF placeholders = <<>> THEN message
    ELSE Substitute(replaceAll(message, "{" \o Head(placeholders)[1] \o "}",
                               Head(placeholders)[2]),
                    Tail(placeholders))

\* the template a pack holds for a key, its fallback template otherwise
Template(pack, messageKey) ==
    IF messageKey \in DOMAIN pack.messages
    THEN pack.messages[messageKey] ELSE pack.messages.fallback

\* the message keys the code asks for
MessageKeys ==
    {"languageList", "languageChanged", "help", "reset", "status", "userNotFound",
     "fallback", "welcomeMessage", "greeting", "gratitude"}

\* the templates with the default placeholder companyName replaced
Localized ==
    [l \in LanguageCodes |->
        [k \in MessageKeys |->
            Substitute(Template(Languages[l], k), <<<<"companyName", companyName>>>>)]]

\* getLocalizedMessage: the text, or threw when languageData.messages is
\* undefined (languageData inherited from Object.prototype)
getLocalizedMessage(d, phoneNumber, messageKey, placeholders) ==
    LET userLanguage == getUserLanguage(d, phoneNumber, Null).lang
    IN  IF userLanguage \in ObjectPrototypeKeys
        THEN [text |-> Null, threw |-> TRUE]
        ELSE LET pack == IF userLanguage \in LanguageCodes
                         THEN Localized[userLanguage] ELSE Localized[defaultLanguage]
             IN  [text |-> Substitute(pack[messageKey], placeholders),
                  threw |-> FALSE]

\* this.languages[userLanguage]?.name || userLanguage
languageName(userLanguage) ==
    IF userLanguage \in LanguageCodes THEN Languages[userLanguage].name
    ELSE IF userLanguage = "constructor" THEN "Object"
    ELSE userLanguage

getCompanyInfo(prov) == companyName \o " powered by " \o UpperOf[prov]

providerInfo(prov) ==
    "Current Provider: " \o UpperOf[prov] \o " Model: " \o ModelOf[prov]

clearChatSession(chat, phoneNumber) == [chat EXCEPT ![phoneNumber] = 0]

\* cleanupInactiveSessions(): the loop over chatSessions has an empty body
\* and cleanedCount stays 0
cleanupInactiveSessions(chat) == [chatSessions |-> chat, cleanedCount |-> 0]

(***************************************************************************)
(* AIService.processSpecialCommands: the document and the chat-session     *)
(* table it leaves, the text it returns (Null: not a special command) and  *)
(* whether it threw.                                                       *)
(***************************************************************************)
Answer(d, chat, m) ==
    [data |-> d, chatSessions |-> chat, ret |-> m.text, threw |-> m.threw]

\* command.startsWith('/language')
IsLanguageCommand(message) == startsWith(CommandOf[message], "/language")

languageCommand(d, chat, message, phoneNumber) ==
    LET parts == PartsOf[message]
    IN  IF Len(parts) = 1
        THEN Answer(d, chat, getLocalizedMessage(d, phoneNumber, "languageList", <<>>))
        ELSE LET langCode == parts[2]
             IN  IF hasLanguage(langCode)
                 THEN LET d1 == setUserLanguage(d, phoneNumber, langCode)
                      IN  Answer(d1, chat,
                                 getLocalizedMessage(d1, phoneNumber, "languageChanged", <<>>))
                 ELSE Answer(d, chat,
                             getLocalizedMessage(d, phoneNumber, "languageList", <<>>))

\* a reset that also erases the stored conversation of the sender
resetCommandErasing(d, chat, phoneNumber) ==
    Answer([d EXCEPT !.conversations[phoneNumber] = <<>>],
           clearChatSession(chat, phoneNumber),
           getLocalizedMessage(d, phoneNumber, "reset", <<>>))

\* case '/reset': close the active session, clearChatSession, the reset text
resetCommand(d, chat, phoneNumber) ==
    LET session == getActiveSession(d, phoneNumber)
        d1 == IF session # 0 THEN closeSession(d, session) ELSE d
    IN  Answer(d1, clearChatSession(chat, phoneNumber),
               getLocalizedMessage(d1, phoneNumber, "reset", <<>>))

statusCommand(d, chat, phoneNumber, prov) ==
    LET user == getUser(d, phoneNumber)
    IN  IF user.exists
        THEN Answer(d, chat,
                 getLocalizedMessage(d, phoneNumber, "status",
                     << <<"messageCount", ToString(user.messageCount)>>,
                        <<"language", languageName(getUserLanguage(d, phoneNumber, Null).lang)>>,
                        <<"provider", UpperOf[prov]>> >>))
        ELSE Answer(d, chat, getLocalizedMessage(d, phoneNumber, "userNotFound", <<>>))

processSpecialCommands(d, chat, message, phoneNumber, prov) ==
    LET command == CommandOf[message]
    IN  IF IsLanguageCommand(message) THEN languageCommand(d, chat, message, phoneNumber)
        ELSE IF command = "/help"
             THEN Answer(d, chat, getLocalizedMessage(d, phoneNumber, "help", <<>>))
        ELSE IF command = "/info"
             THEN Answer(d, chat, [text |-> getCompanyInfo(prov), threw |-> FALSE])
        ELSE IF command = "/reset" THEN resetCommand(d, chat, phoneNumber)
        ELSE IF command = "/status" THEN statusCommand(d, chat, phoneNumber, prov)
        ELSE IF command = "/provider"
             THEN Answer(d, chat, [text |-> providerInfo(prov), threw |-> FALSE])
        ELSE Answer(d, chat, [text |-> Null, threw |-> FALSE])

\* getFallbackResponse(phoneNumber)
getFallbackResponse(d, phoneNumber) == getLocalizedMessage(d, phoneNumber, "fallback", <<>>)

(***************************************************************************)
(* State.                                                                  *)
(***************************************************************************)
vars == <<data, chatSessions, provider, backend, turns, succeeded, last, disk, app>>
dispatchVars == <<backend, turns, succeeded, disk, app>>

\* special: what processSpecialCommands returned to the operation (Null when
\* it was not called or returned null); langBefore, existedBefore: the
\* sender's record when the operation began
Completed(op, phoneNumber, text, ret, threw, special, before) ==
    [op |-> op, phone |-> phoneNumber, text |-> text, ret |-> ret, threw |-> threw,
     special |-> special, adapter |-> "none", stored |-> "none",
     langBefore |-> before.users[phoneNumber].language,
     existedBefore |-> before.users[phoneNumber].exists]

IdleTurn == [pc |-> "idle", phone |-> Null, text |-> Null, handle |-> 0,
             replay |-> <<>>, aiResponse |-> Null]

Init ==
    /\ data = EmptyData
    /\ chatSessions = [p \in Phones |-> 0]
    /\ provider \in Providers
    /\ last = [op |-> "init", phone |-> Null, text |-> Null, ret |-> Null,
               threw |-> FALSE, special |-> Null, adapter |-> "none", stored |-> "none",
               langBefore |-> Null, existedBefore |-> FALSE]
    /\ backend = [sessions |-> <<>>, failed |-> {}]
    /\ turns = [t \in 1..MaxTurns |-> IdleTurn]
    /\ succeeded = [p \in Phones |-> 0]
    /\ disk = [doc |-> EmptyData, writes |-> {}]
    /\ app = [pc |-> "running", AI_PROVIDER |-> provider, keys |-> Providers, now |-> 0,
              isConnected |-> TRUE, botPhoneNumber |-> Null, adminNumbers |-> <<>>,
              sent |-> <<>>]

(***************************************************************************)
(* AIService.generateResponse.  After the special commands, the user       *)
(* lookup and the history read, the call getUserLanguage(phoneNumber,      *)
(* message) evaluates the identifier message, which no scope declares:     *)
(* a ReferenceError, caught by the handler, which answers the fallback.    *)
(***************************************************************************)
\* a handler that stores the fallback it returns as a message from the system
caughtStoring(d, phoneNumber) ==
    [data |-> saveMessage(d, phoneNumber, getFallbackResponse(d, phoneNumber).text, FALSE).data,
     ret |-> getFallbackResponse(d, phoneNumber)]

\* catch (error) { return await this.getFallbackResponse(phoneNumber) }
caught(d, phoneNumber) == [data |-> d, ret |-> getFallbackResponse(d, phoneNumber)]

\* a result of the operation: what it leaves, what it returns, and what the
\* special commands had answered
Result(d, chat, m, special) ==
    [data |-> d, chatSessions |-> chat, ret |-> m.text, threw |-> m.threw,
     special |-> special.ret]

\* lines 692-708 and the handler, special being the answer of line 691
afterSpecialCommands(special, phoneNumber) ==
    IF special.threw
    THEN Result(special.data, special.chatSessions,
                caught(special.data, phoneNumber).ret, special)
    ELSE IF special.ret # Null /\ special.ret # ""
    THEN Result(special.data, special.chatSessions,
                [text |-> special.ret, threw |-> FALSE], special)
    ELSE IF getUser(special.data, phoneNumber).exists
    THEN Result(special.data, special.chatSessions,
                caught(special.data, phoneNumber).ret, special)
    ELSE Result(createUser(special.data, phoneNumber), special.chatSessions,
                caught(createUser(special.data, phoneNumber), phoneNumber).ret, special)

generateResponse(d, chat, userMessage, phoneNumber, prov) ==
    afterSpecialCommands(processSpecialCommands(d, chat, userMessage, phoneNumber, prov),
                         phoneNumber)

\* the operation op returned r
Returns(op, p, text, r) ==
    /\ data' = r.data
    /\ chatSessions' = r.chatSessions
    /\ last' = Completed(op, p, text, r.ret, r.threw, r.special, data)
    /\ UNCHANGED <<provider, dispatchVars>>

GenerateResponse(p, text) ==
    Returns("generateResponse", p, text,
            generateResponse(data, chatSessions, text, p, provider))

(***************************************************************************)
(* WhatsAppBot.processMessage for a sender that is neither the bot nor an  *)
(* admin.  After the special commands and the intent analysis, the call    *)
(* getContextualResponse(phoneNumber, intent, user, messageText) evaluates *)
(* the identifier user, which no scope declares: a ReferenceError, caught  *)
(* by the handler, which sends the hard-coded error text.                  *)
(***************************************************************************)
\* lines 549-578, special being the answer of line 545
afterSpecialResponse(special) ==
    IF ~special.threw /\ special.ret # Null /\ special.ret # ""
    THEN Result(special.data, special.chatSessions,
                [text |-> special.ret, threw |-> FALSE], special)
    ELSE Result(special.data, special.chatSessions,
                [text |-> ProcessingErrorText, threw |-> FALSE], special)

processMessage(d, chat, phoneNumber, messageText, prov) ==
    afterSpecialResponse(processSpecialCommands(d, chat, messageText, phoneNumber, prov))

\* ret is the text handed to sendMessage
ProcessMessage(p, text) ==
    Returns("processMessage", p, text,
            processMessage(data, chatSessions, p, text, provider))

\* getUserLanguage(phoneNumber, messageText) called with the inbound text
ResolveLanguage(p, text) ==
    LET r == getUserLanguage(data, p, text)
    IN  /\ data' = r.data
        /\ last' = Completed("getUserLanguage", p, text, r.lang, FALSE, Null, data)
        /\ UNCHANGED <<chatSessions, provider, dispatchVars>>

Next ==
    \/ \E p \in Phones, text \in Texts : GenerateResponse(p, text)
    \/ \E p \in Phones, text \in Texts : ProcessMessage(p, text)

Spec == Init /\ [][Next]_vars

NextLanguage ==
    \/ \E p \in Phones, text \in Texts : GenerateResponse(p, text)
    \/ \E p \in Phones, text \in Texts : ProcessMessage(p, text)
    \/ \E p \in Phones, text \in ChatTexts : ResolveLanguage(p, text)

SpecLanguage == Init /\ [][NextLanguage]_vars

(***************************************************************************)
(* The dispatch-and-persist statements of generateResponse, lines 696-705  *)
(* and 711-741.  In the program line 708 throws before them (see above);   *)
(* SpecDispatch runs them as they run once the argument of line 708 is     *)
(* bound, to examine the adapters and the persistence they lead to.  A     *)
(* turn is suspended while the provider or the store's write is pending,   *)
(* and turns interleave at these points.  The write of createUser is taken *)
(* with the statements that follow it, and the writes to the file succeed. *)
(***************************************************************************)
\* a replay loop that sends the messages of the system too
FromAnyone(history) == history

\* history.filter(msg => msg.isFromUser), the messages the replay loop sends
FromUser(history) == SelectSeq(history, LAMBDA msg : msg.isFromUser)

Contents(history) == [i \in DOMAIN history |-> history[i].content]

\* model.startChat: a new chat session at the backend, its handle
startChat(b, phoneNumber) ==
    [b EXCEPT !.sessions = Append(@, [phone |-> phoneNumber, sent |-> <<>>])]

\* chatSession.sendMessage(content) that succeeds
sendMessage(b, handle, content) ==
    [b EXCEPT !.sessions[handle].sent = Append(@, content)]

\* a catch block that leaves the table as it is
geminiCatchKeeping(chat, phoneNumber) == chat

\* the catch block of generateGeminiResponse: chatSessions.delete(phoneNumber)
geminiCatch(chat, phoneNumber) == [chat EXCEPT ![phoneNumber] = 0]

IdleTurns == {t \in DOMAIN turns : turns[t].pc = "idle"}

\* a turn ends: what it returned, how its adapter call went and how its
\* persistence went
TurnEnds(t, ret, adapter, stored) ==
    /\ turns' = [turns EXCEPT ![t] = IdleTurn]
    /\ last' = [Completed("turn", turns[t].phone, turns[t].text, ret.text,
                          ret.threw, Null, data) EXCEPT !.adapter = adapter,
                                                        !.stored = stored]

\* a turn is suspended again
TurnStep ==
    last' = [op |-> "step", phone |-> Null, text |-> Null, ret |-> Null,
             threw |-> FALSE, special |-> Null, adapter |-> "none", stored |-> "none",
             langBefore |-> Null, existedBefore |-> FALSE]

\* the adapter of turn t, entered with the history of lines 696-705
Dispatch(t, p, text, replay) ==
    IF provider # "gemini"
    THEN /\ turns' = [turns EXCEPT ![t] = [IdleTurn EXCEPT !.pc = "call", !.phone = p,
                                                         !.text = text]]
         /\ UNCHANGED <<chatSessions, backend>>
    ELSE IF chatSessions[p] # 0
    THEN /\ turns' = [turns EXCEPT ![t] = [IdleTurn EXCEPT !.pc = "send", !.phone = p,
                                                         !.text = text,
                                                         !.handle = chatSessions[p]]]
         /\ UNCHANGED <<chatSessions, backend>>
    ELSE /\ Len(backend.sessions) < MaxHandles
         /\ backend' = startChat(backend, p)
         /\ IF replay = <<>>
            THEN \* no request is made: chatSessions.set at once
                 /\ chatSessions' = [chatSessions EXCEPT ![p] = Len(backend.sessions) + 1]
                 /\ turns' = [turns EXCEPT ![t] =
                                 [IdleTurn EXCEPT !.pc = "send", !.phone = p, !.text = text,
                                                  !.handle = Len(backend.sessions) + 1]]
            ELSE /\ turns' = [turns EXCEPT ![t] =
                                 [IdleTurn EXCEPT !.pc = "replay", !.phone = p, !.text = text,
                                                  !.handle = Len(backend.sessions) + 1,
                                                  !.replay = replay]]
                 /\ UNCHANGED chatSessions

\* lines 696-705, d being the store after the user lookup
Entered(t, p, text, d) ==
    /\ data' = d
    /\ Dispatch(t, p, text, Contents(FromUser(getConversationHistory(d, p, HistoryLimit))))

\* a command test that lets every text through to the dispatch
entersAlways(special) == TRUE

\* lines 691-694: if (specialResponse) return specialResponse; an exception
\* of processSpecialCommands goes to the handler
entersDispatch(special) ==
    ~special.threw /\ (special.ret = Null \/ special.ret = "")

\* lines 691-705 and the adapter up to its first request to the provider; a
\* text that reaches line 696 has left the store and the table as they were
TurnStart(p, text) ==
    /\ entersDispatch(processSpecialCommands(data, chatSessions, text, p, provider))
    /\ IdleTurns # {}
    /\ data.analytics.totalMessages
         + 2 * (Cardinality(DOMAIN turns \ IdleTurns) + 1) <= MaxMessages
    /\ Entered(CHOOSE i \in IdleTurns : \A j \in IdleTurns : i <= j, p, text,
               IF getUser(data, p).exists THEN data ELSE createUser(data, p))
    /\ TurnStep
    /\ UNCHANGED <<provider, succeeded, disk, app>>

RECURSIVE Keep(_, _, _)
\* the messages of replay, from index i on, whose index is not in failedAt
Keep(replay, failedAt, i) ==
    IF i > Len(replay) THEN <<>>
    ELSE (IF i \in failedAt THEN <<>> ELSE <<replay[i]>>) \o Keep(replay, failedAt, i + 1)

\* the replay loop ends: the requests in failedAt failed and were logged,
\* the others reached the session; then chatSessions.set
GeminiReplay(t, failedAt) ==
    /\ turns[t].pc = "replay"
    /\ failedAt \subseteq DOMAIN turns[t].replay
    /\ backend' = [backend EXCEPT !.sessions[turns[t].handle].sent =
                                       @ \o Keep(turns[t].replay, failedAt, 1)]
    /\ chatSessions' = [chatSessions EXCEPT ![turns[t].phone] = turns[t].handle]
    /\ turns' = [turns EXCEPT ![t].pc = "send", ![t].replay = <<>>]
    /\ TurnStep
    /\ UNCHANGED <<data, provider, succeeded, disk, app>>

\* a persistence that stores the answer before the inbound message
persistedSwapped(userMessage, aiResponse, step) ==
    IF step = 1 THEN [content |-> aiResponse, isFromUser |-> FALSE]
    ELSE [content |-> userMessage, isFromUser |-> TRUE]

\* lines 727-728: what the first and the second saveMessage of a turn store
persisted(userMessage, aiResponse, step) ==
    IF step = 1 THEN [content |-> userMessage, isFromUser |-> TRUE]
    ELSE [content |-> aiResponse, isFromUser |-> FALSE]

\* saveMessage returned or threw to generateResponse, next the suspension
Saved(t, saved, next) ==
    /\ data' = saved.data
    /\ IF saved.threw
       THEN TurnEnds(t, caught(saved.data, turns[t].phone).ret, "ok", "failed")
       ELSE /\ turns' = [turns EXCEPT ![t].pc = next, ![t].aiResponse = AIReply]
            /\ TurnStep

\* the adapter returned aiResponse: saveMessage(phoneNumber, userMessage, true)
AdapterReturned(t) ==
    /\ succeeded' = [succeeded EXCEPT ![turns[t].phone] = @ + 1]
    /\ Saved(t, saveMessage(data, turns[t].phone,
                            persisted(turns[t].text, AIReply, 1).content,
                            persisted(turns[t].text, AIReply, 1).isFromUser), "saved1")
    /\ UNCHANGED <<chatSessions, provider, disk, app>>

\* the adapter threw: the catch block of generateResponse
AdapterThrew(t) ==
    /\ data' = caught(data, turns[t].phone).data
    /\ TurnEnds(t, caught(data, turns[t].phone).ret, "failed", "none")
    /\ UNCHANGED <<provider, succeeded, disk, app>>

GeminiSendOk(t) ==
    /\ turns[t].pc = "send"
    /\ backend' = sendMessage(backend, turns[t].handle, turns[t].text)
    /\ AdapterReturned(t)

GeminiSendFail(t) ==
    /\ turns[t].pc = "send"
    /\ backend' = [backend EXCEPT !.failed = @ \cup {turns[t].handle}]
    /\ chatSessions' = geminiCatch(chatSessions, turns[t].phone)
    /\ AdapterThrew(t)

\* generateOpenAIResponse, generateClaudeResponse: one request, no state kept
StatelessOk(t) ==
    /\ turns[t].pc = "call"
    /\ AdapterReturned(t)
    /\ UNCHANGED backend

StatelessFail(t) ==
    /\ turns[t].pc = "call"
    /\ AdapterThrew(t)
    /\ UNCHANGED <<chatSessions, backend>>

\* the first write is done: saveMessage(phoneNumber, aiResponse, false)
SaveResponse(t) ==
    /\ turns[t].pc = "saved1"
    /\ Saved(t, saveMessage(data, turns[t].phone,
                            persisted(turns[t].text, turns[t].aiResponse, 2).content,
                            persisted(turns[t].text, turns[t].aiResponse, 2).isFromUser),
             "saved2")
    /\ UNCHANGED <<chatSessions, provider, backend, succeeded, disk, app>>

\* the second write is done: updateUser(phoneNumber, {lastSeen}), return
TurnReturns(t) ==
    /\ turns[t].pc = "saved2"
    /\ data' = updateUserLastSeen(data, turns[t].phone)
    /\ TurnEnds(t, [text |-> turns[t].aiResponse, threw |-> FALSE], "ok", "ok")
    /\ UNCHANGED <<chatSessions, provider, backend, succeeded, disk, app>>

\* WhatsAppBot.sendAdminStats: db.getAnalytics()
AdminStats ==
    /\ data' = getAnalytics(data)
    /\ last' = [op |-> "getAnalytics", phone |-> Null, text |-> Null, ret |-> Null,
                threw |-> FALSE, special |-> Null, adapter |-> "none", stored |-> "none",
                langBefore |-> Null, existedBefore |-> FALSE]
    /\ UNCHANGED <<chatSessions, provider, dispatchVars>>

DispatchTexts == {"Hello", "Halo, apa kabar?"}

NextDispatch ==
    \/ \E p \in Phones, text \in DispatchTexts : TurnStart(p, text)
    \/ \E t \in 1..MaxTurns : \E failedAt \in SUBSET (1..MaxMessages) : GeminiReplay(t, failedAt)
    \/ \E t \in 1..MaxTurns : GeminiSendOk(t)
    \/ \E t \in 1..MaxTurns : GeminiSendFail(t)
    \/ \E t \in 1..MaxTurns : StatelessOk(t)
    \/ \E t \in 1..MaxTurns : StatelessFail(t)
    \/ \E t \in 1..MaxTurns : SaveResponse(t)
    \/ \E t \in 1..MaxTurns : TurnReturns(t)
    \/ \E p \in Phones : GenerateResponse(p, "/reset")
    \/ AdminStats

SpecDispatch == Init /\ [][NextDispatch]_vars

(***************************************************************************)
(* Properties of the dispatch, of the Gemini chat-session table and of the *)
(* persistence of a turn.                                                  *)
(***************************************************************************)
FromSystem(history) == SelectSeq(history, LAMBDA msg : ~msg.isFromUser)

FallbackTexts == {Localized[l]["fallback"] : l \in LanguageCodes}

AdapterFailed == last.op = "turn" /\ last.adapter = "failed"

\* C1: the messageCount of a stored user equals the number of messages from
\* the user saved for it; messages from the system do not count.
C1_MessageCountIsInbound ==
    \A p \in Phones :
        data.users[p].exists
        => data.users[p].messageCount = Len(FromUser(data.conversations[p]))

\* C2: when the Gemini adapter fails for a sender, the sender's entry of the
\* chat-session table is empty once the turn has returned, the table never
\* holds a session a request has failed on, and a session created for a later
\* turn is new: nothing has failed on it and it holds nothing before the
\* from-user history is replayed into it.
C2_FailedSessionDropped ==
    /\ (AdapterFailed /\ provider = "gemini") => chatSessions[last.phone] = 0
    /\ \A p \in Phones : chatSessions[p] \notin backend.failed
    /\ \A t \in DOMAIN turns :
           turns[t].pc = "replay"
           => /\ turns[t].handle \notin backend.failed
              /\ backend.sessions[turns[t].handle].sent = <<>>
              /\ turns[t].replay # <<>>
              /\ \A i \in DOMAIN turns[t].replay :
                     \E j \in DOMAIN data.conversations[turns[t].phone] :
                         /\ data.conversations[turns[t].phone][j].isFromUser
                         /\ data.conversations[turns[t].phone][j].content
                              = turns[t].replay[i]

\* a session of the sender failed, and a later turn of the sender has started
\* a new session and is replaying the from-user history into it
C2_Witness ==
    \E t \in DOMAIN turns :
        /\ turns[t].pc = "replay"
        /\ chatSessions[turns[t].phone] = 0
        /\ \E h \in backend.failed :
               /\ backend.sessions[h].phone = turns[t].phone
               /\ h < turns[t].handle
        /\ turns[t].replay = Contents(FromUser(data.conversations[turns[t].phone]))

\* C3: after a turn whose adapter call failed has returned, the history of
\* the sender contains the inbound message of the turn.
C3_InboundKeptOnFailure ==
    AdapterFailed
    => \E i \in DOMAIN data.conversations[last.phone] :
           /\ data.conversations[last.phone][i].isFromUser
           /\ data.conversations[last.phone][i].content = last.text

\* C4: a turn whose adapter call failed appends no message from the system:
\* a conversation holds at most one message from the system per adapter call
\* that succeeded, and no stored message is a fallback text.
C4_NoSystemMessageOnFailure ==
    \A p \in Phones :
        /\ Len(FromSystem(data.conversations[p])) <= succeeded[p]
        /\ \A i \in DOMAIN data.conversations[p] :
               data.conversations[p][i].content \notin FallbackTexts

\* a turn failed at the adapter, after a turn of the sender was answered and
\* stored
C4_Witness ==
    /\ AdapterFailed
    /\ last.ret \in FallbackTexts
    /\ FromSystem(data.conversations[last.phone]) # <<>>

(***************************************************************************)
(* Properties of the command interpreter, the language resolution and the  *)
(* transport handler.                                                      *)
(***************************************************************************)
IsTurn == last.op \in {"generateResponse", "processMessage"}

\* the active language of a sender
ActiveLanguage(p) == getUserLanguage(data, p, Null).lang

\* C5: a first non-command text of a sender without a record is answered by
\* the welcome template of the sender's language, and the sender then has a
\* record with messageCount = 1.
C5_FirstMessageWelcomed ==
    (last.op = "processMessage" /\ ~last.existedBefore /\ last.text \in ChatTexts)
    => /\ ActiveLanguage(last.phone) \in LanguageCodes
       /\ last.ret = Languages[ActiveLanguage(last.phone)].messages.welcome
       /\ data.users[last.phone].exists
       /\ data.users[last.phone].messageCount = 1

\* C6: when a sender without a stored preference sends a text that
\* detectLanguage maps to a language L, L is stored as the preference and is
\* the active language afterwards.
C6_DetectedLanguageStored ==
    ( /\ \/ last.op = "generateResponse" /\ last.special = Null
         \/ last.op = "getUserLanguage" /\ last.existedBefore
      /\ last.langBefore = Null
      /\ DetectOf[last.text] # Null )
    => /\ data.users[last.phone].language = DetectOf[last.text]
       /\ ActiveLanguage(last.phone) = DetectOf[last.text]

\* /language followed by a configured language code
IsValidLanguageCommand(text) ==
    /\ text \in Texts
    /\ IsLanguageCommand(text)
    /\ Len(PartsOf[text]) >= 2
    /\ PartsOf[text][2] \in LanguageCodes

\* C7: a stored language preference changes only by /language with a valid
\* code or by a confident detection of another language.
C7_PreferenceStable ==
    [][ \A p \in Phones :
          ( /\ data.users[p].language # Null
            /\ data'.users[p].language # data.users[p].language )
          => /\ last'.phone = p
             /\ \/ IsTurn' /\ IsValidLanguageCommand(last'.text)
                \/ /\ last'.op = "getUserLanguage"
                   /\ DetectOf[last'.text] = data'.users[p].language ]_vars

\* the languageChanged confirmations
Confirmations == {Languages[l].messages.languageChanged : l \in LanguageCodes}

\* C8: /language with a configured code stores the code for the sender, and
\* whenever the confirmation is returned the sender's language is that code.
C8_ValidCodeIsSet ==
    (IsTurn /\ IsValidLanguageCommand(last.text))
    => /\ last.ret \in Confirmations
       /\ data.users[last.phone].language = PartsOf[last.text][2]
       /\ ActiveLanguage(last.phone) = PartsOf[last.text][2]

\* C9: /language without a configured code answers the language options and
\* leaves the stored preference as it was.
C9_LanguageOptionsIdempotent ==
    (IsTurn /\ IsLanguageCommand(last.text) /\ ~IsValidLanguageCommand(last.text))
    => /\ ~last.threw
       /\ ActiveLanguage(last.phone) \in LanguageCodes
       /\ last.special = Languages[ActiveLanguage(last.phone)].messages.languageList
       /\ data.users[last.phone].language = last.langBefore

\* the closed set of commands: /help, /info, /reset, /status, /provider and
\* /language optionally followed by a code
IsRecognizedCommand(text) ==
    \/ CommandOf[text] \in {"/help", "/info", "/reset", "/status", "/provider"}
    \/ PartsOf[text][1] = "/language"

\* C10: a slash-prefixed text outside the closed set of commands is not
\* answered by processSpecialCommands.
C10_UnknownSlashFallsThrough ==
    (IsTurn /\ startsWith(last.text, "/") /\ ~IsRecognizedCommand(last.text))
    => last.special = Null

(***************************************************************************)
(* generateResponse and processMessage on commands, next to turns in       *)
(* flight: SpecCommands delivers a chat text and the commands to           *)
(* generateResponse, the commands also to processMessage.  A command is    *)
(* answered in one step (lines 691-694, dev-tools.js 545-564); any other   *)
(* text enters the dispatch.                                               *)
(***************************************************************************)
CommandsInTurns == {"/HELP", "/reset", "/info", "/language en"}

DispatchSteps ==
    \/ \E t \in 1..MaxTurns : \E failedAt \in SUBSET (1..MaxMessages) : GeminiReplay(t, failedAt)
    \/ \E t \in 1..MaxTurns : GeminiSendOk(t)
    \/ \E t \in 1..MaxTurns : GeminiSendFail(t)
    \/ \E t \in 1..MaxTurns : StatelessOk(t)
    \/ \E t \in 1..MaxTurns : StatelessFail(t)
    \/ \E t \in 1..MaxTurns : SaveResponse(t)
    \/ \E t \in 1..MaxTurns : TurnReturns(t)

NextCommands ==
    \/ \E p \in Phones, text \in {"Hello"} \cup CommandsInTurns : TurnStart(p, text)
    \/ DispatchSteps
    \/ \E p \in Phones, text \in CommandsInTurns : GenerateResponse(p, text)
    \/ \E p \in Phones, text \in CommandsInTurns : ProcessMessage(p, text)

SpecCommands == Init /\ [][NextCommands]_vars

\* C11: a recognized command, in any letter case, is answered before the
\* dispatch: no turn in flight carries a recognized command, and the step
\* that answers one leaves the provider backend, the chat-session table's
\* creations, the turns in flight, the conversations and the analytics as
\* they were.
C11_CommandBeforeDispatch ==
    [][ /\ \A t \in DOMAIN turns :
              turns'[t].pc # "idle" => ~IsRecognizedCommand(turns'[t].text)
        /\ (IsTurn' /\ IsRecognizedCommand(last'.text))
           => /\ backend' = backend
              /\ turns' = turns
              /\ data'.conversations = data.conversations
              /\ data'.analytics = data.analytics
              /\ \A p \in Phones : chatSessions'[p] \in {0, chatSessions[p]}
              /\ last'.ret = last'.special ]_vars

\* a command in capitals was answered while a turn of the sender was waiting
\* for the provider and an earlier turn was stored
C11_Witness ==
    /\ IsTurn
    /\ last.text = "/HELP"
    /\ last.ret = Languages[ActiveLanguage(last.phone)].messages.help
    /\ data.conversations[last.phone] # <<>>
    /\ \E t \in DOMAIN turns :
           turns[t].pc \in {"send", "call"} /\ turns[t].phone = last.phone

(***************************************************************************)
(* The administration of the service next to the turns: switchProvider,    *)
(* and the sessions commands of the admin, clear <phone> and clearall.     *)
(* The API key of every provider is configured.                            *)
(***************************************************************************)
\* an operation of the administrator returned ret
AdminReturned(op, phoneNumber, ret) ==
    last' = [op |-> op, phone |-> phoneNumber, text |-> Null, ret |-> ret,
             threw |-> FALSE, special |-> Null, adapter |-> "none", stored |-> "none",
             langBefore |-> Null, existedBefore |-> FALSE]

\* switchProvider(newProvider): provider, config.ai.provider, initializeAIClients
SwitchProvider(newProvider) ==
    /\ newProvider \in Providers
    /\ provider' = newProvider
    /\ AdminReturned("switchProvider", Null,
                     "AI provider berhasil diubah ke: " \o UpperOf[newProvider])
    /\ UNCHANGED <<data, chatSessions, dispatchVars>>

\* sessions clear <phone>: aiService.clearChatSession(phoneNumber)
ClearChatSession(p) ==
    /\ chatSessions' = clearChatSession(chatSessions, p)
    /\ AdminReturned("clearChatSession", p, IF chatSessions[p] # 0 THEN "true" ELSE "false")
    /\ UNCHANGED <<data, provider, dispatchVars>>

\* sessions clearall: aiService.clearAllChatSessions()
ClearAllChatSessions ==
    /\ chatSessions' = [p \in Phones |-> 0]
    /\ AdminReturned("clearAllChatSessions", Null,
                     ToString(Cardinality({p \in Phones : chatSessions[p] # 0})))
    /\ UNCHANGED <<data, provider, dispatchVars>>

NextAdmin ==
    \/ \E p \in Phones : TurnStart(p, "Hello")
    \/ DispatchSteps
    \/ \E p \in Phones : GenerateResponse(p, "/reset")
    \/ \E newProvider \in Providers : SwitchProvider(newProvider)
    \/ \E p \in Phones : ClearChatSession(p)
    \/ ClearAllChatSessions

SpecAdmin == Init /\ [][NextAdmin]_vars

(***************************************************************************)
(* The store sessions.  createSession is the operation of the store that   *)
(* opens one; /reset closes the active session getActiveSession returns.   *)
(***************************************************************************)
\* createSession(phoneNumber): a session with isActive: true and the latest
\* lastActivity
CreateSession(p) ==
    /\ Len(data.sessions) < MaxSessions
    /\ data' = [data EXCEPT !.sessions = Append(@, [phoneNumber |-> p, isActive |-> TRUE,
                                                      lastActivity |-> app.now])]
    /\ AdminReturned("createSession", p, Null)
    /\ UNCHANGED <<chatSessions, provider, dispatchVars>>

NextSessions ==
    \/ \E p \in Phones : CreateSession(p)
    \/ \E p \in Phones, text \in {"/reset", "/help"} : GenerateResponse(p, text)
    \/ \E p \in Phones : ProcessMessage(p, "/reset")

SpecSessions == Init /\ [][NextSessions]_vars

(***************************************************************************)
(* Properties of the chat sessions under interleaved turns and under the   *)
(* administration of the service.                                          *)
(***************************************************************************)
\* C12: a sender has at most one chat session in use at a time: the handle
\* of the table and the handles the sender's turns in flight replay into or
\* send on are one and the same.
C12_OneHandlePerUser ==
    \A p \in Phones :
        Cardinality(({chatSessions[p]} \ {0})
                    \cup {turns[t].handle : t \in {u \in DOMAIN turns :
                                                     /\ turns[u].phone = p
                                                     /\ turns[u].pc \in {"replay", "send"}}})
          <= 1

\* C13: switchProvider leaves the chat-session table empty.
C13_SwitchEmptiesSessions ==
    last.op = "switchProvider" => \A p \in Phones : chatSessions[p] = 0

\* C14: clearing chat sessions, by /reset, by sessions clear <phone> or by
\* sessions clearall, removes table entries only: the conversations, the
\* user records and the analytics stay as they were, as do the entries of
\* the other senders when one sender is cleared.
C14_ClearKeepsStore ==
    [][ ( \/ last'.op \in {"clearChatSession", "clearAllChatSessions"}
          \/ last'.op = "generateResponse" /\ CommandOf[last'.text] = "/reset" )
        => /\ data'.conversations = data.conversations
           /\ data'.users = data.users
           /\ data'.analytics = data.analytics
           /\ \A p \in Phones :
                  chatSessions'[p] = IF last'.phone \in {p, Null} THEN 0
                                     ELSE chatSessions[p] ]_vars

\* the admin cleared the chat session of a sender that had one and has a
\* stored conversation
C14_Witness ==
    /\ last.op = "clearChatSession"
    /\ last.ret = "true"
    /\ data.conversations[last.phone] # <<>>
    /\ data.users[last.phone].messageCount > 0

\* C15: right after /reset the sender has no active store session and no
\* entry in the chat-session table.
C15_ResetLeavesNoSession ==
    (IsTurn /\ CommandOf[last.text] = "/reset")
    => /\ getActiveSession(data, last.phone) = 0
       /\ chatSessions[last.phone] = 0

(***************************************************************************)
(* Properties of the persistence of a turn.                                *)
(***************************************************************************)
\* C16: a turn reads the history, generates, persists and then returns, the
\* inbound message before the answer: no turn holds an answer before its
\* adapter returned, a turn past its first write has its inbound message
\* stored, a turn that returns the answer has stored the inbound message
\* and after it the answer, and in every prefix of a conversation the
\* messages from the system are at most those from the user.
C16_InboundBeforeAnswer ==
    /\ \A t \in DOMAIN turns :
           /\ turns[t].pc \in {"replay", "send", "call"} => turns[t].aiResponse = Null
           /\ turns[t].pc \in {"saved1", "saved2"}
              => \E i \in DOMAIN data.conversations[turns[t].phone] :
                     /\ data.conversations[turns[t].phone][i].content = turns[t].text
                     /\ data.conversations[turns[t].phone][i].isFromUser
                     /\ turns[t].pc = "saved2"
                        => \E j \in DOMAIN data.conversations[turns[t].phone] :
                               /\ i < j
                               /\ data.conversations[turns[t].phone][j].content
                                    = turns[t].aiResponse
                               /\ ~data.conversations[turns[t].phone][j].isFromUser
    /\ (last.op = "turn" /\ last.ret = AIReply)
       => \E i, j \in DOMAIN data.conversations[last.phone] :
              /\ i < j
              /\ data.conversations[last.phone][i].content = last.text
              /\ data.conversations[last.phone][i].isFromUser
              /\ data.conversations[last.phone][j].content = AIReply
              /\ ~data.conversations[last.phone][j].isFromUser
    /\ \A p \in Phones : \A k \in 0..Len(data.conversations[p]) :
           Len(FromSystem(SubSeq(data.conversations[p], 1, k)))
             <= Len(FromUser(SubSeq(data.conversations[p], 1, k)))

\* a turn returned the answer after two turns of the sender had interleaved
\* their writes: both inbound messages stand before the first answer
C16_Witness ==
    /\ last.op = "turn"
    /\ last.ret = AIReply
    /\ Len(data.conversations[last.phone]) >= 3
    /\ data.conversations[last.phone][2].isFromUser
    /\ ~data.conversations[last.phone][3].isFromUser

(***************************************************************************)
(* The database file.  save() hands this.data to writeJson, which turns it *)
(* into text at the call and then writes the text; an operation of the     *)
(* store returns when its own write is done.  Nothing orders the writes of *)
(* operations that are in flight together.                                 *)
(***************************************************************************)
\* JSON.stringify(this.data) as the document reads back: a Set is written
\* as {}, an object without members that is no Set
stringify(d) ==
    IF d.analytics.today.present /\ d.analytics.today.usersIsSet
    THEN [d EXCEPT !.analytics.today.users = {}, !.analytics.today.usersIsSet = FALSE]
    ELSE d

\* save(): fs.writeJson(this.dbPath, this.data), the write now in flight
save(f, d) == [f EXCEPT !.writes = @ \cup {stringify(d)}]

\* an operation of the store changed this.data to d and awaits save()
StoreCall(op, p, d) ==
    /\ Cardinality(disk.writes) < MaxTurns
    /\ d.analytics.totalMessages <= MaxMessages
    /\ d # data
    /\ data' = d
    /\ disk' = save(disk, d)
    /\ AdminReturned(op, p, Null)
    /\ UNCHANGED <<chatSessions, provider, backend, turns, succeeded, app>>

\* the write of the text w is done, the operation that awaited it returns
WriteLands(w) ==
    /\ w \in disk.writes
    /\ disk' = [doc |-> w, writes |-> disk.writes \ {w}]
    /\ AdminReturned("save", Null, Null)
    /\ UNCHANGED <<data, chatSessions, provider, backend, turns, succeeded, app>>

NextStore ==
    \/ \E p \in Phones : StoreCall("createUser", p, createUser(data, p))
    \/ \E p \in Phones : StoreCall("updateUser", p, updateUserPreferences(data, p, "en"))
    \/ \E p \in Phones : StoreCall("saveMessage", p, saveMessage(data, p, "Hello", TRUE).data)
    \/ \E w \in disk.writes : WriteLands(w)

SpecStore == Init /\ [][NextStore]_vars

\* C17: once every operation of the store that was called has returned, the
\* document in the file is the document in memory.
C17_FileEqualsMemory ==
    disk.writes = {} => disk.doc = data

(***************************************************************************)
(* A provider that does not answer.  The Gemini adapter awaits             *)
(* chatSession.sendMessage without a request timeout and without an abort  *)
(* signal, and generateResponse starts no timer: a request the backend     *)
(* leaves unanswered keeps its turn suspended.                             *)
(***************************************************************************)
\* the backend leaves the request of turn t unanswered
ProviderSilent(t) ==
    /\ turns[t].pc = "send"
    /\ turns' = [turns EXCEPT ![t].pc = "unanswered"]
    /\ TurnStep
    /\ UNCHANGED <<data, chatSessions, provider, backend, succeeded, disk, app>>

NextSilent ==
    \/ NextDispatch
    \/ \E t \in 1..MaxTurns : ProviderSilent(t)

SpecSilent == Init /\ [][NextSilent]_vars

\* C18: every turn ends: a turn in flight always has a step of the program
\* that takes it further, the answer or the failure of its request, the end
\* of a write, or the timeout that ends the adapter call with the fallback.
C18_TurnCanEnd ==
    \A t \in DOMAIN turns :
        turns[t].pc # "idle"
        => ENABLED ( \/ \E failedAt \in SUBSET (1..MaxMessages) : GeminiReplay(t, failedAt)
                     \/ GeminiSendOk(t) \/ GeminiSendFail(t)
                     \/ StatelessOk(t) \/ StatelessFail(t)
                     \/ SaveResponse(t) \/ TurnReturns(t)
                     \/ ProviderSilent(t) )

(***************************************************************************)
(* Turns of senders whose stored language is a name /language accepted     *)
(* although no language pack exists for it.                                *)
(***************************************************************************)
NextFallback ==
    \/ NextDispatch
    \/ \E p \in Phones : GenerateResponse(p, "/language constructor")

SpecFallback == Init /\ [][NextFallback]_vars

\* C19: a turn whose adapter call failed does not throw: it returns the
\* fallback text of the sender's language.
C19_AdapterErrorAnswered ==
    AdapterFailed
    => /\ ~last.threw
       /\ ActiveLanguage(last.phone) \in LanguageCodes
       /\ last.ret = Localized[ActiveLanguage(last.phone)]["fallback"]

(***************************************************************************)
(* Writes to the database file that fail.  save() rethrows the error of    *)
(* writeJson, the store operation rejects, and generateResponse, which     *)
(* awaits it inside its try block, goes to its handler.                    *)
(***************************************************************************)
\* the write turn t awaits fails: after the first saveMessage that of line
\* 727, after the second that of line 728 or that of updateUser, line 731
WriteFails(t) ==
    /\ turns[t].pc \in {"saved1", "saved2"}
    /\ data' = caught(data, turns[t].phone).data
    /\ TurnEnds(t, caught(data, turns[t].phone).ret, "ok", "failed")
    /\ UNCHANGED <<chatSessions, provider, backend, succeeded, disk, app>>

NextPersist ==
    \/ NextFallback
    \/ \E t \in 1..MaxTurns : WriteFails(t)

SpecPersist == Init /\ [][NextPersist]_vars

\* C20: a turn one of whose persistence steps failed returns the fallback
\* text of the sender's language and not the text of the adapter.
C20_FailedWriteAnswersFallback ==
    (last.op = "turn" /\ last.stored = "failed")
    => /\ ~last.threw
       /\ last.ret \in FallbackTexts
       /\ last.ret # AIReply

(***************************************************************************)
(* startApplication: loadConfig, initializeDatabase, createBot, in this    *)
(* order, each awaited inside one try block whose handler calls            *)
(* process.exit(1).  The environment is AI_PROVIDER (Null when unset) and  *)
(* keys, the providers whose API key variable is set and not empty.        *)
(***************************************************************************)
\* a loader that checks neither the provider name nor its API key
loadEnvironmentConfigUnchecked(env) == TRUE

\* loadEnvironmentConfig returns process.env (TRUE) or throws (FALSE)
loadEnvironmentConfig(env) ==
    LET aiProvider == IF env.AI_PROVIDER \in {Null, ""} THEN "gemini" ELSE env.AI_PROVIDER
    IN  /\ toLowerCase(aiProvider) \in Providers
        /\ toLowerCase(aiProvider) \in env.keys

\* a step of startApplication; createBot constructs the AIService with
\* config.ai.provider = AI_PROVIDER || 'gemini'
StartupStep(from, to) ==
    /\ app.pc = from
    /\ app' = [app EXCEPT !.pc = to]
    /\ provider' = IF to # "running" THEN provider
                    ELSE IF app.AI_PROVIDER \in {Null, ""} THEN "gemini"
                    ELSE app.AI_PROVIDER
    /\ UNCHANGED <<data, chatSessions, backend, turns, succeeded, last, disk>>

InitStartup ==
    /\ data = EmptyData
    /\ chatSessions = [p \in Phones |-> 0]
    /\ provider = Null
    /\ last = [op |-> "init", phone |-> Null, text |-> Null, ret |-> Null,
               threw |-> FALSE, special |-> Null, adapter |-> "none", stored |-> "none",
               langBefore |-> Null, existedBefore |-> FALSE]
    /\ backend = [sessions |-> <<>>, failed |-> {}]
    /\ turns = [t \in 1..MaxTurns |-> IdleTurn]
    /\ succeeded = [p \in Phones |-> 0]
    /\ disk = [doc |-> EmptyData, writes |-> {}]
    /\ app \in [pc : {"start"},
                AI_PROVIDER : {Null, "", "gemini", "openai", "Claude", "llama"},
                keys : SUBSET Providers,
                now : {0}, isConnected : {FALSE}, botPhoneNumber : {Null},
                adminNumbers : {<<>>}, sent : {<<>>}]

NextStartup ==
    \/ StartupStep("start", IF loadEnvironmentConfig(app) THEN "configured" ELSE "exited")
    \/ StartupStep("configured", "database")
    \/ StartupStep("database", "running")
    \/ app.pc = "running" /\ \E p \in Phones, text \in {"/help", "Hello"} : ProcessMessage(p, text)

SpecStartup == InitStartup /\ [][NextStartup]_vars

\* C21: when the selected provider is unsupported or its API key is missing,
\* the process never gets past loadConfig: it is starting or has exited, the
\* database is not initialized, no bot and no AIService exist, and no
\* inbound message was handled.
C21_ConfigErrorIsFatal ==
    (\A pr \in Providers :
        toLowerCase(IF app.AI_PROVIDER \in {Null, ""} THEN "gemini" ELSE app.AI_PROVIDER) = pr
        => pr \notin app.keys)
    => /\ app.pc \in {"start", "exited"}
       /\ provider = Null
       /\ last.op = "init"
       /\ data = EmptyData

\* the process exited although the key of another provider was set
C21_Witness ==
    /\ app.pc = "exited"
    /\ app.AI_PROVIDER = "openai"
    /\ app.keys = {"gemini", "claude"}

(***************************************************************************)
(* detectLanguage on its own, and through getUserLanguage for senders with *)
(* and without a record.                                                   *)
(***************************************************************************)
DetectLanguage(text) ==
    /\ last' = [op |-> "detectLanguage", phone |-> Null, text |-> text,
                ret |-> DetectOf[text], threw |-> FALSE, special |-> Null,
                adapter |-> "none", stored |-> "none",
                langBefore |-> Null, existedBefore |-> FALSE]
    /\ UNCHANGED <<data, chatSessions, provider, dispatchVars>>

NextDetect ==
    \/ \E text \in DetectTexts : DetectLanguage(text)
    \/ \E p \in Phones, text \in DetectTexts \ {""} : ResolveLanguage(p, text)
    \/ \E p \in Phones : GenerateResponse(p, "OK")

SpecDetect == Init /\ [][NextDetect]_vars

\* C22: detectLanguage answers null for an empty text and for a text whose
\* trimmed length is under 3; for any other text it answers a language
\* exactly when the score of that language is strictly greater than the
\* score of the other language and greater than 3, and null otherwise.
C22_DetectByScore ==
    last.op = "detectLanguage"
    => IF last.text = "" \/ Len(trim(last.text)) < 3
       THEN last.ret = Null
       ELSE /\ last.ret \in {"en", "id", Null}
            /\ last.ret = "en"
               <=> /\ englishScore(trim(toLowerCase(last.text)))
                        > indonesianScore(trim(toLowerCase(last.text)))
                   /\ englishScore(trim(toLowerCase(last.text))) > 3
            /\ last.ret = "id"
               <=> /\ indonesianScore(trim(toLowerCase(last.text)))
                        > englishScore(trim(toLowerCase(last.text)))
                   /\ indonesianScore(trim(toLowerCase(last.text))) > 3

\* a text whose two scores are equal and above 3 was answered null
C22_Witness ==
    /\ last.op = "detectLanguage"
    /\ last.text = "order"
    /\ last.ret = Null
    /\ englishScore("order") = indonesianScore("order")
    /\ englishScore("order") > 3

(***************************************************************************)
(* The operations of the store in any order, with the clock advancing      *)
(* between them: createUser, updateUser, saveMessage, createSession, the   *)
(* closeSession of /reset, getAnalytics and cleanup(daysToKeep), whose     *)
(* default is 30 days.                                                     *)
(***************************************************************************)
\* the operation op of the store left the document d and returned
StoreOp(op, p, ret, d) ==
    /\ d.analytics.totalMessages < MaxMessages
    /\ data' = d
    /\ AdminReturned(op, p, ret)
    /\ UNCHANGED <<chatSessions, provider, dispatchVars>>

\* a day passes: new Date() yields the next date, so dailyStats[today] is a
\* key that is not there yet and the entry of the day before stays as it is
Tick ==
    /\ app.now < MaxClock
    /\ app' = [app EXCEPT !.now = @ + 1]
    /\ data' = IF ~data.analytics.today.present THEN data
               ELSE [data EXCEPT !.analytics.earlier = Append(@, data.analytics.today.messages),
                                 !.analytics.today = EmptyData.analytics.today]
    /\ AdminReturned("tick", Null, Null)
    /\ UNCHANGED <<chatSessions, provider, backend, turns, succeeded, disk>>

NextCleanup ==
    \/ \E p \in Phones :
           ~getUser(data, p).exists /\ StoreOp("createUser", p, Null, createUser(data, p))
    \/ \E p \in {"6281@s.whatsapp.net"} : StoreOp("updateUser", p, Null, updateUserPreferences(data, p, "en"))
    \/ \E p \in {"6281@s.whatsapp.net"} :
           StoreOp("saveMessage", p, Null, saveMessage(data, p, "Hello", TRUE).data)
    \/ \E daysToKeep \in {0, 1, 30} :
           StoreOp("cleanup", Null, ToString(daysToKeep), cleanup(data, daysToKeep))
    \/ \E p \in {"6281@s.whatsapp.net"} : data.sessions = <<>> /\ CreateSession(p)
    \/ \E p \in {"6281@s.whatsapp.net"} : GenerateResponse(p, "/reset")
    \/ AdminStats
    \/ Tick

SpecCleanup == Init /\ [][NextCleanup]_vars

\* C23: no store operation lowers an analytics counter: totalMessages and
\* totalUsers never decrease, a saveMessage raises totalMessages by exactly
\* one, and the message counter of every day (the days before today and
\* today) never decreases.
C23_CountersNeverDecrease ==
    [][ /\ data'.analytics.totalMessages >= data.analytics.totalMessages
        /\ data'.analytics.totalUsers >= data.analytics.totalUsers
        /\ (last'.op = "saveMessage" =>
               data'.analytics.totalMessages = data.analytics.totalMessages + 1)
        /\ \A i \in DOMAIN data.analytics.earlier :
               /\ i \in DOMAIN data'.analytics.earlier
               /\ data'.analytics.earlier[i] >= data.analytics.earlier[i]
        /\ (app'.now = app.now =>
               data'.analytics.today.messages >= data.analytics.today.messages)
        /\ (app'.now # app.now /\ data.analytics.today.present =>
               data'.analytics.earlier[Len(data'.analytics.earlier)]
                   = data.analytics.today.messages) ]_vars

\* a cleanup has removed stored messages and the counters still count them
C23_Witness ==
    /\ last.op = "cleanup"
    /\ data.analytics.totalMessages >= 2
    /\ data.analytics.totalUsers >= 1
    /\ data.analytics.earlier # <<>>
    /\ \A p \in Phones : data.conversations[p] = <<>>
\* C24: the message log is append-only: every step leaves a conversation
\* as it was, or with one message added at its end and the earlier ones
\* untouched, or with some of its messages dropped and the remaining ones
\* unchanged and in the order they had.
C24_LogAppendOnly ==
    [][ \A p \in Phones :
          \/ data'.conversations[p] = data.conversations[p]
          \/ /\ Len(data'.conversations[p]) = Len(data.conversations[p]) + 1
             /\ SubSeq(data'.conversations[p], 1, Len(data.conversations[p]))
                    = data.conversations[p]
          \/ /\ Len(data'.conversations[p]) < Len(data.conversations[p])
             /\ data'.conversations[p]
                    = SelectSeq(data.conversations[p],
                                LAMBDA m : \E i \in DOMAIN data'.conversations[p] :
                                               data'.conversations[p][i] = m) ]_vars

\* a message was appended after a cleanup dropped an older one and kept a
\* newer one: the kept message is still in front of the new one
C24_Witness ==
    /\ last.op = "saveMessage"
    /\ Len(data.conversations[last.phone]) >= 2
    /\ data.analytics.totalMessages > Len(data.conversations[last.phone])
    /\ data.conversations[last.phone][1].timestamp
           < data.conversations[last.phone][Len(data.conversations[last.phone])].timestamp
    /\ data.conversations[last.phone][Len(data.conversations[last.phone])].timestamp = app.now
\* C28: no step deletes a user record, and a cleanup(daysToKeep) leaves of
\* every conversation exactly the messages newer than the cutoff, of the
\* sessions exactly those whose last activity is not older than it, and the
\* user records and the analytics as they were.
C28_CleanupPrunesOnly ==
    [][ /\ \A p \in Phones : data.users[p].exists => data'.users[p].exists
        /\ \A daysToKeep \in {0, 1, 30} :
               last'.op = "cleanup" /\ last'.ret = ToString(daysToKeep) =>
                   /\ \A p \in Phones :
                          data'.conversations[p]
                              = SelectSeq(data.conversations[p],
                                          LAMBDA m : m.timestamp > app.now - daysToKeep)
                   /\ data'.sessions
                          = SelectSeq(data.sessions,
                                      LAMBDA x : x.lastActivity >= app.now - daysToKeep)
                   /\ data'.users = data.users
                   /\ data'.analytics = data.analytics ]_vars

\* cleanup(1) a day after the first message: the message of the day before
\* and the session are gone, the message of today, the user and the
\* counters are there
C28_Witness ==
    /\ last.op = "cleanup" /\ last.ret = "1"
    /\ app.now = 2
    /\ data.analytics.earlier = <<1, 1>>
    /\ data.analytics.totalMessages = 3
    /\ \E p \in Phones :
           /\ data.users[p].exists /\ data.users[p].messageCount = 3
           /\ Len(data.conversations[p]) = 1
           /\ data.conversations[p][1].timestamp = 2
    /\ data.sessions = <<>>
\* C25: an inbound text that is no command, from a sender the store already
\* knows, is handed to the adapter of the active provider, and what the bot
\* sends back is the adapter's text or the fallback.
C25_InboundDispatched ==
    (last.op = "processMessage" /\ last.text \in ChatTexts /\ last.existedBefore)
    => /\ last.adapter # "none"
       /\ last.ret # ProcessingErrorText
(***************************************************************************)
(* WhatsAppBot: the inbound handler, the admin commands and sendMessage.   *)
(* The store is the one loaded from the database file at start-up: some of *)
(* the Phones have a user record and a message written 31 days ago.  The   *)
(* bot's number and the admin numbers are those of the configuration.      *)
(* app.sent holds what the handler that ran last handed to the socket, and *)
(* the pauses of the broadcast.  The emoji of the texts are left out.      *)
(***************************************************************************)
RECURSIVE onlyDigits(_)
\* s.replace(/\D/g, '')
onlyDigits(s) ==
    IF s = "" THEN ""
    ELSE (IF IndexIn(SubSeq(s, 1, 1), Digits, 1) # 0 THEN SubSeq(s, 1, 1) ELSE "")
             \o onlyDigits(Tail(s))

\* a bot that takes no number for its own
isBotNumberNever(botPhoneNumber, phoneNumber) == FALSE

isBotNumber(botPhoneNumber, phoneNumber) ==
    IF botPhoneNumber \in {Null, ""} THEN FALSE
    ELSE \/ includes(onlyDigits(phoneNumber), onlyDigits(botPhoneNumber))
         \/ includes(onlyDigits(botPhoneNumber), onlyDigits(phoneNumber))

\* a bot that takes every sender for an admin
isAdminAnyone(adminNumbers, phoneNumber) == TRUE

isAdmin(adminNumbers, phoneNumber) ==
    \E i \in DOMAIN adminNumbers : adminNumbers[i] = phoneNumber

\* WhatsAppBot.sendMessage(phoneNumber, text): the process after the call
botSendMessage(a, phoneNumber, text) ==
    IF ~a.isConnected \/ isBotNumber(a.botPhoneNumber, phoneNumber) THEN a
    ELSE [a EXCEPT !.sent = Append(@, [to |-> phoneNumber, text |-> text])]

RECURSIVE broadcastMessage(_, _, _, _)
\* the loop of broadcastMessage over the keys of db.data.users: sendMessage,
\* then the pause of 1000 ms; with pause FALSE the loop of
\* sendStartupNotification over adminNumbers
broadcastMessage(a, users, text, pause) ==
    IF users = <<>> THEN a
    ELSE broadcastMessage(
             IF pause
             THEN [botSendMessage(a, Head(users), text) EXCEPT
                      !.sent = Append(@, [to |-> "setTimeout", text |-> "1000"])]
             ELSE botSendMessage(a, Head(users), text),
             Tail(users), text, pause)

\* handleAdminCommand(phoneNumber, command), parts being command.split(' ')
handleAdminCommand(a, d, chat, phoneNumber, command, parts) ==
    IF Len(parts) >= 2 /\ parts[2] = "stats"
    THEN [data |-> getAnalytics(d), chatSessions |-> chat, ret |-> "stats",
          app |-> botSendMessage(a, phoneNumber,
                      "*Bot Statistics* Total Users: " \o ToString(d.analytics.totalUsers)
                          \o " Total Messages: " \o ToString(d.analytics.totalMessages))]
    ELSE IF Len(parts) >= 2 /\ parts[2] = "broadcast"
    THEN [data |-> d, chatSessions |-> chat, ret |-> "broadcast",
          app |-> botSendMessage(
                      broadcastMessage(a,
                          CHOOSE keys \in [1..Cardinality({p \in Phones : d.users[p].exists})
                                               -> {p \in Phones : d.users[p].exists}] :
                              \A i, j \in DOMAIN keys : i # j => keys[i] # keys[j],
                          "*Broadcast Message*\n\n"
                              \o SubSeq(command, Len(parts[1]) + Len(parts[2]) + 3, Len(command)),
                          TRUE),
                      phoneNumber, "Broadcast message sent successfully.")]
    ELSE IF Len(parts) >= 2 /\ parts[2] = "users"
    THEN [data |-> d, chatSessions |-> chat, ret |-> "users",
          app |-> botSendMessage(a, phoneNumber, "*Active Users (Last 20):*")]
    ELSE IF Len(parts) >= 2 /\ parts[2] = "cleanup"
    THEN [data |-> cleanup(d, 30), chatSessions |-> chat, ret |-> "cleanup",
          app |-> botSendMessage(a, phoneNumber, "Database cleanup completed.")]
    ELSE IF Len(parts) >= 3 /\ parts[2] = "sessions" /\ parts[3] = "clearall"
    THEN [data |-> d, chatSessions |-> [p \in Phones |-> 0], ret |-> "sessions clearall",
          app |-> botSendMessage(a, phoneNumber,
                      "Cleared " \o ToString(Cardinality({p \in Phones : chat[p] # 0}))
                          \o " chat sessions")]
    ELSE IF Len(parts) >= 3 /\ parts[2] = "sessions" /\ parts[3] = "cleanup"
    THEN [data |-> d, chatSessions |-> cleanupInactiveSessions(chat).chatSessions,
          ret |-> "sessions cleanup",
          app |-> botSendMessage(a, phoneNumber,
                      "Cleaned up " \o ToString(cleanupInactiveSessions(chat).cleanedCount)
                          \o " inactive sessions")]
    ELSE IF Len(parts) >= 2 /\ parts[2] = "sessions"
    THEN [data |-> d, chatSessions |-> chat, ret |-> "sessions",
          app |-> botSendMessage(a, phoneNumber, "*Sessions Management*")]
    ELSE [data |-> d, chatSessions |-> chat, ret |-> "help",
          app |-> botSendMessage(a, phoneNumber, "*Admin Commands*")]

\* a handler of the bot is done: r is what it leaves and returns, a the
\* process after its sends
Handled(op, p, text, r, a) ==
    /\ data' = r.data
    /\ chatSessions' = r.chatSessions
    /\ app' = a
    /\ last' = [Completed(op, p, text, r.ret, FALSE, Null, data) EXCEPT
                   !.special = IF op = "processMessage" THEN r.special ELSE Null]
    /\ UNCHANGED <<provider, backend, turns, succeeded, disk>>

\* handleIncomingMessages for one message with a text that is not fromMe,
\* and the processMessage it awaits
HandleIncoming(p, text) ==
    IF isBotNumber(app.botPhoneNumber, p)
    THEN Handled("skipped", p, text,
                 [data |-> data, chatSessions |-> chatSessions, ret |-> Null],
                 [app EXCEPT !.sent = <<>>])
    ELSE IF isAdmin(app.adminNumbers, p) /\ startsWith(text, "/admin")
    THEN Handled("handleAdminCommand", p, text,
                 handleAdminCommand([app EXCEPT !.sent = <<>>], data, chatSessions,
                                    p, text, split(text)),
                 handleAdminCommand([app EXCEPT !.sent = <<>>], data, chatSessions,
                                    p, text, split(text)).app)
    ELSE Handled("processMessage", p, text,
                 processMessage(data, chatSessions, p, text, provider),
                 botSendMessage([app EXCEPT !.sent = <<>>], p,
                                processMessage(data, chatSessions, p, text, provider).ret))

\* connection.update: 'open' sets isConnected and sends the startup
\* notification to every admin number, 'close' clears isConnected
ConnectionUpdate(connection) ==
    /\ app.isConnected # (connection = "open")
    /\ app' = IF connection = "open"
              THEN broadcastMessage([app EXCEPT !.isConnected = TRUE, !.sent = <<>>],
                                    app.adminNumbers, "*Bot Started*", FALSE)
              ELSE [app EXCEPT !.isConnected = FALSE, !.sent = <<>>]
    /\ AdminReturned("connection.update", Null, connection)
    /\ UNCHANGED <<data, chatSessions, provider, backend, turns, succeeded, disk>>

InitTransport ==
    /\ \E stored \in SUBSET Phones :
           data = [EmptyData EXCEPT
                      !.users = [p \in Phones |->
                                    IF p \in stored
                                    THEN [exists |-> TRUE, messageCount |-> 1, language |-> Null]
                                    ELSE NoUser],
                      !.conversations = [p \in Phones |->
                                    IF p \in stored
                                    THEN <<[content |-> "Hello", isFromUser |-> TRUE,
                                            timestamp |-> 0 - 31]>>
                                    ELSE <<>>],
                      !.analytics.totalUsers = Cardinality(stored),
                      !.analytics.totalMessages = Cardinality(stored)]
    /\ chatSessions = [p \in Phones |-> 0]
    /\ provider \in {"gemini"}
    /\ last = [op |-> "init", phone |-> Null, text |-> Null, ret |-> Null,
               threw |-> FALSE, special |-> Null, adapter |-> "none", stored |-> "none",
               langBefore |-> Null, existedBefore |-> FALSE]
    /\ backend = [sessions |-> <<>>, failed |-> {}]
    /\ turns = [t \in 1..MaxTurns |-> IdleTurn]
    /\ succeeded = [p \in Phones |-> 0]
    /\ disk = [doc |-> EmptyData, writes |-> {}]
    /\ app \in [pc : {"running"}, AI_PROVIDER : {"gemini"}, keys : {Providers}, now : {0},
                isConnected : {FALSE},
                botPhoneNumber : {Null, "+62 82"},
                \* config.admin.numbers mapped by the constructor
                adminNumbers : { <<>>, <<"6281@s.whatsapp.net">>,
                                 <<"6281@s.whatsapp.net", "6282@s.whatsapp.net">> },
                sent : {<<>>}]

NextTransport ==
    \/ \E p \in Phones, text \in AdminTexts \cup {"Hello", "/help", "/reset"} :
           HandleIncoming(p, text)
    \/ \E connection \in {"open", "close"} : ConnectionUpdate(connection)

SpecTransport == InitTransport /\ [][NextTransport]_vars

\* C26: an admin broadcast with K user records in the store hands exactly K
\* messages to the socket, one to each stored user, each followed by the
\* pause, and none to the admin unless the admin is a stored user.
C26_BroadcastSendsK ==
    (last.op = "handleAdminCommand" /\ last.text = "/admin broadcast Hi" /\ app.isConnected
        /\ \A p \in Phones : ~isBotNumber(app.botPhoneNumber, p))
    => /\ Len(SelectSeq(app.sent, LAMBDA m : m.to \in Phones))
              = Cardinality({p \in Phones : data.users[p].exists})
       /\ \A p \in Phones :
              data.users[p].exists =>
                  \E i \in DOMAIN app.sent :
                      /\ app.sent[i].to = p
                      /\ i < Len(app.sent) /\ app.sent[i + 1].to = "setTimeout"
       /\ ~data.users[last.phone].exists =>
              \A i \in DOMAIN app.sent : app.sent[i].to # last.phone

\* C27: an inbound text that starts with /admin, from a sender that is not
\* in adminNumbers, runs no admin handler: the step leaves the store and the
\* chat-session table as they were and hands the socket nothing but the
\* answer to the sender.
C27_AdminOnlyForAllowList ==
    [][ (/\ last'.op \in {"skipped", "handleAdminCommand", "processMessage"}
         /\ startsWith(last'.text, "/admin")
         /\ \A i \in DOMAIN app.adminNumbers : app.adminNumbers[i] # last'.phone)
        => /\ last'.op # "handleAdminCommand"
           /\ data' = data
           /\ chatSessions' = chatSessions
           /\ \A i \in DOMAIN app'.sent :
                  /\ app'.sent[i].to = last'.phone
                  /\ app'.sent[i].text = ProcessingErrorText ]_vars

\* a sender outside a non-empty allow-list asked for a broadcast while the
\* store holds users, and got the error text and nothing else happened
C27_Witness ==
    /\ last.op = "processMessage" /\ last.text = "/admin broadcast Hi"
    /\ app.adminNumbers = <<"6281@s.whatsapp.net">>
    /\ last.phone = "6282@s.whatsapp.net"
    /\ \A p \in Phones : data.users[p].exists /\ Len(data.conversations[p]) = 1
    /\ app.sent = <<[to |-> last.phone, text |-> ProcessingErrorText]>>

\* C30: with a bot phone number configured, no handler runs for an inbound
\* message of the bot's own number, and nothing is handed to the socket for
\* the bot's own number, whether by an answer, a broadcast or the startup
\* notification.
C30_NeverOwnNumber ==
    app.botPhoneNumber # Null
    => /\ \A i \in DOMAIN app.sent :
              app.sent[i].to \in Phones =>
                  onlyDigits(app.sent[i].to) # onlyDigits(app.botPhoneNumber)
       /\ (last.op \in {"handleAdminCommand", "processMessage"} =>
              onlyDigits(last.phone) # onlyDigits(app.botPhoneNumber))
       /\ (last.op = "skipped" => app.sent = <<>>)

\* an admin broadcast went out while the bot's own number is a stored user
\* and an admin number: the other user got it, the bot's number did not
C30_Witness ==
    /\ app.botPhoneNumber = "+62 82"
    /\ last.op = "handleAdminCommand" /\ last.text = "/admin broadcast Hi"
    /\ data.users["6282@s.whatsapp.net"].exists
    /\ isAdmin(app.adminNumbers, "6282@s.whatsapp.net")
    /\ Len(app.sent) = 4
    /\ app.sent[1] = [to |-> "6281@s.whatsapp.net", text |-> "*Broadcast Message*\n\nHi"]

(***************************************************************************)
(* The pruning of inactive chat sessions.  SpecPrune runs the turns of     *)
(* SpecAdmin on day 0 only, lets the days pass and calls                   *)
(* cleanupInactiveSessions() with its default threshold of 24 hours: from  *)
(* day 2 on every chat session of the table has been idle for longer.      *)
(***************************************************************************)
NextPrune ==
    \/ app.now = 0 /\ \E p \in Phones : TurnStart(p, "Hello")
    \/ app.now = 0 /\ DispatchSteps
    \/ Tick
    \/ /\ chatSessions' = cleanupInactiveSessions(chatSessions).chatSessions
       /\ AdminReturned("cleanupInactiveSessions", Null,
                        ToString(cleanupInactiveSessions(chatSessions).cleanedCount))
       /\ UNCHANGED <<data, provider, dispatchVars>>

SpecPrune == Init /\ [][NextPrune]_vars

\* C29: after the pruning of inactive chat sessions, no chat session that
\* has been idle for longer than the threshold is left in the table.
C29_PruneRemovesInactive ==
    (last.op = "cleanupInactiveSessions" /\ app.now >= 2)
    => \A p \in Phones : chatSessions[p] = 0

\* C31: the appends of overlapping turns of one sender are not interleaved:
\* in every conversation a message from the system directly follows the
\* message from the user it answers.
C31_TurnsAtomicPerUser ==
    \A p \in Phones :
        \A i \in DOMAIN data.conversations[p] :
            ~data.conversations[p][i].isFromUser =>
                /\ i > 1
                /\ data.conversations[p][i - 1].isFromUser

\* C32: with provider gemini a turn starts a chat session only when the
\* table holds none for the sender; the replay loop of the new session is
\* handed the contents of the stored messages from the user, in their order
\* and none from the system, and what reaches the session is these in order
\* (those whose request failed left out); a turn that finds a chat session
\* makes one request, the new message.
C32_ReplayOnceThenSendNew ==
    [][ \A t \in DOMAIN turns :
          /\ (turns[t].pc = "idle" /\ turns'[t].pc # "idle" /\ provider = "gemini") =>
                IF chatSessions[turns'[t].phone] # 0
                THEN /\ backend' = backend
                     /\ turns'[t].pc = "send"
                     /\ turns'[t].handle = chatSessions[turns'[t].phone]
                ELSE /\ Len(backend'.sessions) = Len(backend.sessions) + 1
                     /\ turns'[t].handle = Len(backend'.sessions)
                     /\ backend'.sessions[turns'[t].handle].sent = <<>>
                     /\ turns'[t].replay =
                            [i \in DOMAIN SelectSeq(data'.conversations[turns'[t].phone],
                                                    LAMBDA m : m.isFromUser) |->
                                SelectSeq(data'.conversations[turns'[t].phone],
                                          LAMBDA m : m.isFromUser)[i].content]
          /\ (turns[t].pc = "replay" /\ turns'[t].pc # "replay") =>
                /\ Len(backend'.sessions) = Len(backend.sessions)
                /\ \E failedAt \in SUBSET DOMAIN turns[t].replay :
                       backend'.sessions[turns[t].handle].sent =
                           backend.sessions[turns[t].handle].sent
                               \o Keep(turns[t].replay, failedAt, 1)
          /\ (turns[t].pc = "send" /\ turns'[t].pc # "send") =>
                /\ Len(backend'.sessions) = Len(backend.sessions)
                /\ backend'.sessions[turns[t].handle].sent
                       \in { backend.sessions[turns[t].handle].sent,
                             Append(backend.sessions[turns[t].handle].sent, turns[t].text) } ]_vars

\* a sender whose first turn was answered and stored and whose chat session
\* was then dropped has a second chat session: it was sent the stored
\* message from the user, then the new message, and not the stored answer
C32_Witness ==
    \E p \in Phones :
        /\ chatSessions[p] = 2
        /\ backend.sessions[2].sent = <<"Hello", "Halo, apa kabar?">>
        /\ Len(data.conversations[p]) >= 2
        /\ data.conversations[p][1].content = "Hello"
        /\ data.conversations[p][2].content = AIReply

(***************************************************************************)
(* getConversationHistory(phoneNumber, limit) on the stores saveMessage    *)
(* builds.  The read returns limit ":" length of the array it hands out.   *)
(***************************************************************************)
NextHistory ==
    \/ \E p \in Phones, isFromUser \in BOOLEAN :
           StoreOp("saveMessage", p, Null, saveMessage(data, p, "Hello", isFromUser).data)
    \/ \E p \in Phones, limit \in 0..MaxMessages :
           /\ AdminReturned("getConversationHistory", p,
                            ToString(limit) \o ":"
                                \o ToString(Len(getConversationHistory(data, p, limit))))
           /\ UNCHANGED <<data, chatSessions, provider, dispatchVars>>

SpecHistory == Init /\ [][NextHistory]_vars

\* C33: getConversationHistory(phoneNumber, limit) returns at most limit
\* messages, for every limit from 0 on.
C33_HistoryAtMostLimit ==
    \A limit \in 0..MaxMessages, n \in 0..MaxMessages :
        (last.op = "getConversationHistory"
            /\ last.ret = ToString(limit) \o ":" \o ToString(n))
        => n <= limit

(***************************************************************************)
(* Lines 699-702 of generateResponse, statement by statement.  A turn is   *)
(* suspended at await db.getUser(phoneNumber) with what the lookup found,  *)
(* and createUser stores the record before its own await.  Between the two *)
(* only the statements of other turns that need no input or output run:    *)
(* their lookups and their createUser calls.                               *)
(***************************************************************************)
NextFirstTurns ==
    \/ \E p \in Phones :
           /\ IdleTurns # {}
           /\ turns' = [turns EXCEPT ![CHOOSE i \in IdleTurns : \A j \in IdleTurns : i <= j] =
                           [IdleTurn EXCEPT !.pc = IF getUser(data, p).exists
                                                   THEN "found" ELSE "missing",
                                            !.phone = p]]
           /\ last' = Completed("getUser", p, Null, Null, FALSE, Null, data)
           /\ UNCHANGED <<data, chatSessions, provider, backend, succeeded, disk, app>>
    \/ \E t \in DOMAIN turns :
           /\ turns[t].pc = "missing"
           /\ data' = createUser(data, turns[t].phone)
           /\ turns' = [turns EXCEPT ![t].pc = "found"]
           /\ last' = Completed("createUser", turns[t].phone, Null, Null, FALSE, Null, data)
           /\ UNCHANGED <<chatSessions, provider, backend, succeeded, disk, app>>
    \/ \E t \in DOMAIN turns :
           /\ turns[t].pc = "found"
           /\ turns' = [turns EXCEPT ![t] = IdleTurn]
           /\ TurnStep
           /\ UNCHANGED <<data, chatSessions, provider, backend, succeeded, disk, app>>

SpecFirstTurns == Init /\ [][NextFirstTurns]_vars

\* C34: createUser runs only for a sender that has no record: a record is
\* created at most once and never replaced.
C34_UserCreatedOnce ==
    last.op = "createUser" => ~last.existedBefore

\* C35: getAnalytics leaves the analytics of the store as they were: after
\* it the unique users of the day are still the Set saveMessage adds to.
C35_GetAnalyticsReadOnly ==
    (last.op = "getAnalytics" /\ data.analytics.today.present)
    => /\ data.analytics.today.usersIsSet
       /\ ~saveMessage(data, "6281@s.whatsapp.net", "Hello", TRUE).threw

(***************************************************************************)
(* A restart of the store: initialize() of a new DatabaseManager reads the *)
(* database file once no write is in flight, and this.data becomes         *)
(* {...this.data, ...existingData}, the document of the file.              *)
(***************************************************************************)
NextReload ==
    \/ \E p \in Phones : StoreCall("createUser", p, createUser(data, p))
    \/ StoreCall("saveMessage", "6281@s.whatsapp.net",
                 saveMessage(data, "6281@s.whatsapp.net", "Hello", TRUE).data)
    \/ \E w \in disk.writes : WriteLands(w)
    \/ /\ disk.writes = {}
       /\ data' = disk.doc
       /\ AdminReturned("initialize", Null, Null)
       /\ UNCHANGED <<chatSessions, provider, dispatchVars>>

SpecReload == Init /\ [][NextReload]_vars

\* C36: a store initialized from the file save wrote has the analytics of
\* the store that wrote it, the day's unique users being a Set, and
\* saveMessage on it succeeds on the same day.
C36_ReloadRoundTrip ==
    (last.op = "initialize" /\ data.analytics.today.present)
    => /\ data.analytics.today.usersIsSet
       /\ data.analytics.today.users # {}
       /\ ~saveMessage(data, "6281@s.whatsapp.net", "Hello", TRUE).threw

(***************************************************************************)
(* switchProvider(newProvider) in a service started with the API keys of   *)
(* app.keys.  An unsupported name throws at the first test; a supported    *)
(* one is assigned to this.provider and config.ai.provider, and then       *)
(* initializeAIClients throws when the key of that provider is missing.    *)
(* last.ret is this.provider as it was before the call.                    *)
(***************************************************************************)
NextSwitch ==
    \/ NextStartup
    \/ \E newProvider \in {"gemini", "OpenAI", "claude", "llama"} :
           /\ app.pc = "running"
           /\ provider' = IF toLowerCase(newProvider) \in Providers
                          THEN toLowerCase(newProvider) ELSE provider
           /\ last' = [op |-> "switchProvider", phone |-> Null, text |-> newProvider,
                       ret |-> provider,
                       threw |-> ~(/\ toLowerCase(newProvider) \in Providers
                                   /\ toLowerCase(newProvider) \in app.keys),
                       special |-> Null, adapter |-> "none", stored |-> "none",
                       langBefore |-> Null, existedBefore |-> FALSE]
           /\ UNCHANGED <<data, chatSessions, dispatchVars>>

SpecSwitch == InitStartup /\ [][NextSwitch]_vars

\* C37: a switchProvider that threw has left the provider of the service as
\* it was before the call.
C37_SwitchAllOrNothing ==
    (last.op = "switchProvider" /\ last.threw) => provider = last.ret

\* C38: a saveMessage whose write fails has no effect on the store in
\* memory: when the write of a turn's first saveMessage fails and the
\* sender's conversation held nothing before that call, it holds nothing
\* after the call has rejected.
C38_FailedWriteNoEffect ==
    [][ \A t \in DOMAIN turns :
          (/\ turns[t].pc = "saved1" /\ turns'[t].pc = "idle"
           /\ last'.op = "turn" /\ last'.stored = "failed"
           /\ data.analytics.today.usersIsSet
           /\ Len(data.conversations[turns[t].phone]) = 1)
          => data'.conversations[turns[t].phone] = <<>> ]_vars

(***************************************************************************)
(* The keys of the sessions.  createSession stores the session under       *)
(* phoneNumber_Date.now().  In SpecKeys app.now is the value Date.now()    *)
(* returns, which stays the same between calls that follow one another     *)
(* closely; sessions are only created here, so that the lastActivity of a  *)
(* stored session is the clock value of its key.  A session assigned to a  *)
(* key that is taken replaces the session stored there.                    *)
(***************************************************************************)
NextKeys ==
    \/ \E p \in Phones :
           /\ Len(data.sessions) < MaxSessions
           /\ data' = IF \E i \in DOMAIN data.sessions :
                             /\ data.sessions[i].phoneNumber = p
                             /\ data.sessions[i].lastActivity = app.now
                      THEN data
                      ELSE [data EXCEPT !.sessions =
                               Append(@, [phoneNumber |-> p, isActive |-> TRUE,
                                          lastActivity |-> app.now])]
           /\ AdminReturned("createSession", p, ToString(app.now))
           /\ UNCHANGED <<chatSessions, provider, dispatchVars>>
    \/ Tick

SpecKeys == Init /\ [][NextKeys]_vars

\* C39: every createSession call adds a session to the stored ones: two
\* calls leave two distinct sessions.
C39_SessionKeysUnique ==
    [][ (last'.op = "createSession" /\ last' # last)
        => Len(data'.sessions) = Len(data.sessions) + 1 ]_vars
====
